---- MODULE Spec2Model ----
(***************************************************************************)
(* Model of the low-level SPI master drivers for SPIv2 in STM32:           *)
(*   - ChipSpiMasterLowLevel      (interrupt-based driver)                 *)
(*   - SpiMasterLowLevelDmaBased  (DMA-based driver)                       *)
(*   - DmaChannel / DmaChannel::UniqueHandle (DMAv2)                       *)
(* One behaviour of the model exercises one of the two drivers, selected   *)
(* in the initial state by `variant`.                                      *)
(***************************************************************************)
EXTENDS Integers, Naturals, Sequences, FiniteSets, TLC

(***************************************************************************)
(* Bounds of the model and input domains                                   *)
(***************************************************************************)

\* largest transfer size (bytes) passed to startTransfer()
MaxSize == 4

\* frequency of the peripheral clock, Hz (board configuration)
PeripheralFrequency == 1000

\* null pointer
Nullptr == 0

minWordLength == 4

maxWordLength == 16

\* `size` arguments of startTransfer()
Sizes == 0 .. MaxSize

\* arguments of configure(): valid 8-bit and 16-bit configurations, a clock
\* frequency that needs a divider above 256, clock frequency 0, and word
\* lengths below and above the supported range
ConfigureArguments ==
    {[mode |-> "cpol0cpha0", clockFrequency |-> PeripheralFrequency \div 2, wordLength |-> 8,
      lsbFirst |-> FALSE, dummyData |-> 0],
     [mode |-> "cpol1cpha1", clockFrequency |-> PeripheralFrequency \div 2, wordLength |-> 16,
      lsbFirst |-> TRUE, dummyData |-> 54549],
     [mode |-> "cpol0cpha0", clockFrequency |-> 3, wordLength |-> 8,
      lsbFirst |-> FALSE, dummyData |-> 0],
     [mode |-> "cpol0cpha0", clockFrequency |-> 0, wordLength |-> 8,
      lsbFirst |-> FALSE, dummyData |-> 0],
     [mode |-> "cpol0cpha0", clockFrequency |-> 0, wordLength |-> 3,
      lsbFirst |-> FALSE, dummyData |-> 0],
     [mode |-> "cpol1cpha1", clockFrequency |-> PeripheralFrequency \div 2, wordLength |-> 17,
      lsbFirst |-> TRUE, dummyData |-> 54549]}

\* address of the devices::SpiMasterBase object passed to startTransfer()
Observers == {1}

\* `writeBuffer` and `readBuffer` arguments of startTransfer(): null pointers,
\* halfword-aligned addresses (64, 66) and odd addresses (65)
BufferArguments ==
    {[writeBuffer |-> Nullptr, readBuffer |-> Nullptr],
     [writeBuffer |-> 64, readBuffer |-> 66],
     [writeBuffer |-> 65, readBuffer |-> 66],
     [writeBuffer |-> 64, readBuffer |-> 65]}

\* quotient produced by the build for the division by clockFrequency == 0
\* (undefined behaviour): some value accepted as divider, some value rejected
UndefinedDividers == {0, 257}

Pow2(n) == 2 ^ n

\* uint32_t and size_t arithmetic wraps around; the model checker's integers
\* are 32-bit signed, so the wrap-around is modelled modulo 2^30: a negative
\* difference still wraps to a value above every size and frequency in use
Modulus == Pow2(30)

\* uint32_t arithmetic
U32(x) == x % Modulus

\* size_t arithmetic
SizeT(x) == x % Modulus

\* 31 - __builtin_clz(x) for x > 0: index of the highest set bit
RECURSIVE HighestBit(_)
HighestBit(x) == IF x <= 1 THEN 0 ELSE 1 + HighestBit(x \div 2)

(***************************************************************************)
(* SPI registers, as records of their fields                               *)
(***************************************************************************)

\* CR1 = {} (all bits cleared)
ZeroCr1 ==
    [SSM |-> FALSE, SSI |-> FALSE, SPE |-> FALSE, BR |-> 0, MSTR |-> FALSE,
     LSBFIRST |-> FALSE, CPOL |-> FALSE, CPHA |-> FALSE]

\* CR2 = {} (all bits cleared)
ZeroCr2 ==
    [FRXTH |-> FALSE, DS |-> 0, TXEIE |-> FALSE, RXNEIE |-> FALSE, ERRIE |-> FALSE,
     TXDMAEN |-> FALSE, RXDMAEN |-> FALSE]

\* SPI_CR1_SSM | SPI_CR1_SSI | SPI_CR1_SPE | SPI_CR1_BR | SPI_CR1_MSTR
InitialCr1 ==
    [ZeroCr1 EXCEPT !.SSM = TRUE, !.SSI = TRUE, !.SPE = TRUE, !.BR = 7, !.MSTR = TRUE]

\* SPI_CR2_FRXTH | (8 - 1) << SPI_CR2_DS_Pos
InitialCr2 == [ZeroCr2 EXCEPT !.FRXTH = TRUE, !.DS = 8 - 1]

\* getWordLength(): ((cr2 & SPI_CR2_DS) >> SPI_CR2_DS_Pos) + 1
getWordLength(cr2) == cr2.DS + 1

\* (wordLength + 8 - 1) / 8
DataSize(wordLength) == (wordLength + 8 - 1) \div 8

(***************************************************************************)
(* ChipSpiMasterLowLevel: the interrupt-based driver.  A state `s` of the  *)
(* driver is a record of the object's fields, the CR1 and CR2 registers of *)
(* its SPI peripheral and the state of the peripheral's data path:         *)
(*   txCount - words written to DR and not yet shifted out                 *)
(*   rxFifo  - words received and not yet read from DR                     *)
(*   OVR     - overrun flag of SR                                          *)
(*   written - the words written to DR since the transfer started          *)
(*   memory  - the bytes at readBuffer_[0], readBuffer_[1], ...            *)
(***************************************************************************)

\* bytes of the read buffer that are observed: those of the largest transfer
\* and two bytes past its end
MemoryOffsets == 0 .. MaxSize + 1

\* the read buffer as the caller hands it over: every byte holds a filler
\* value that no received byte has
FreshMemory == [i \in MemoryOffsets |-> 255]

\* the byte stored at `address` of the memory the write buffers lie in
SourceByte(address) == (address * 7 + 3) % 256

\* the frame the slave returns during frame `k` of a transfer, `wordLength` bits
Wire(k, wordLength) == (256 * (128 + k) + 64 + k) % Pow2(wordLength)

ChipInit ==
    [started_ |-> FALSE, spiMasterBase_ |-> Nullptr, readBuffer_ |-> Nullptr,
     writeBuffer_ |-> Nullptr, size_ |-> 0, readPosition_ |-> 0, writePosition_ |-> 0,
     dummyData_ |-> 0, CR1 |-> ZeroCr1, CR2 |-> ZeroCr2,
     txCount |-> 0, rxFifo |-> <<>>, OVR |-> FALSE, written |-> <<>>,
     memory |-> FreshMemory]

ChipIsStarted(s) == s.started_

ChipIsTransferInProgress(s) == s.spiMasterBase_ # Nullptr

\* result of an operation: new state and returned value
Result(s, ret) == [s |-> s, ret |-> ret]

\* configure() that does not check whether the driver is started
ChipConfigureWithoutStartedCheck(s, mode, clockFrequency, wordLength, lsbFirst, dummyData, undefinedDivider) ==
    IF wordLength < minWordLength \/ wordLength > maxWordLength
    THEN [s |-> s, ret |-> "EINVAL", frequency |-> 0]
    ELSE IF ChipIsTransferInProgress(s) = TRUE
    THEN [s |-> s, ret |-> "EBUSY", frequency |-> 0]
    ELSE [s |-> [s EXCEPT !.CR1 = [s.CR1 EXCEPT !.LSBFIRST = lsbFirst],
                          !.CR2 = [s.CR2 EXCEPT !.FRXTH = (wordLength <= 8),
                                                !.DS = wordLength - 1],
                          !.dummyData_ = dummyData],
          ret |-> "OK",
          frequency |-> PeripheralFrequency \div 2]

\* ChipSpiMasterLowLevel::configure(); `undefinedDivider` is the quotient the
\* build produces when clockFrequency == 0
\* configure() of a driver whose SpiPeripheral::getPeripheralFrequency()
\* returns `peripheralFrequency`
ChipConfigureAt(s, peripheralFrequency, mode, clockFrequency, wordLength, lsbFirst, dummyData, undefinedDivider) ==
    IF wordLength < minWordLength \/ wordLength > maxWordLength
    THEN [s |-> s, ret |-> "EINVAL", frequency |-> 0]
    ELSE IF ChipIsStarted(s) = FALSE
    THEN [s |-> s, ret |-> "EBADF", frequency |-> 0]
    ELSE IF ChipIsTransferInProgress(s) = TRUE
    THEN [s |-> s, ret |-> "EBUSY", frequency |-> 0]
    ELSE
        LET divider == IF clockFrequency = 0
                       THEN undefinedDivider
                       ELSE U32(peripheralFrequency + clockFrequency - 1) \div clockFrequency
        IN  IF divider > 256
            THEN [s |-> s, ret |-> "EINVAL", frequency |-> 0]
            ELSE
                LET br == IF divider <= 2 THEN 0 ELSE HighestBit(divider - 1)
                    cr1 == [s.CR1 EXCEPT !.LSBFIRST = lsbFirst, !.BR = br,
                                !.CPOL = mode \in {"cpol1cpha0", "cpol1cpha1"},
                                !.CPHA = mode \in {"cpol0cpha1", "cpol1cpha1"}]
                    cr2 == [s.CR2 EXCEPT !.FRXTH = (wordLength <= 8), !.DS = wordLength - 1]
                IN  [s |-> [s EXCEPT !.CR1 = cr1, !.CR2 = cr2, !.dummyData_ = dummyData],
                     ret |-> "OK",
                     frequency |-> peripheralFrequency \div Pow2(br + 1)]

ChipConfigure(s, mode, clockFrequency, wordLength, lsbFirst, dummyData, undefinedDivider) ==
    ChipConfigureAt(s, PeripheralFrequency, mode, clockFrequency, wordLength, lsbFirst,
        dummyData, undefinedDivider)

\* ChipSpiMasterLowLevel::start()
ChipStart(s) ==
    IF ChipIsStarted(s) = TRUE
    THEN Result(s, "EBADF")
    ELSE Result([s EXCEPT !.CR1 = InitialCr1, !.CR2 = InitialCr2, !.started_ = TRUE], "OK")

\* ChipSpiMasterLowLevel::startTransfer()
ChipStartTransfer(s, spiMasterBase, writeBuffer, readBuffer, size) ==
    IF size = 0
    THEN Result(s, "EINVAL")
    ELSE IF ChipIsStarted(s) = FALSE
    THEN Result(s, "EBADF")
    ELSE IF ChipIsTransferInProgress(s) = TRUE
    THEN Result(s, "EBUSY")
    ELSE IF size % DataSize(getWordLength(s.CR2)) # 0
    THEN Result(s, "EINVAL")
    ELSE Result([s EXCEPT !.spiMasterBase_ = spiMasterBase,
                          !.readBuffer_ = readBuffer,
                          !.writeBuffer_ = writeBuffer,
                          !.size_ = size,
                          !.readPosition_ = 0,
                          !.writePosition_ = 0,
                          !.CR2 = [s.CR2 EXCEPT !.TXEIE = TRUE, !.RXNEIE = TRUE,
                                                !.ERRIE = TRUE]],
                "OK")

\* stop() that does not check whether a transfer is in progress
ChipStopWithoutBusyCheck(s) ==
    IF ChipIsStarted(s) = FALSE
    THEN Result(s, "EBADF")
    ELSE Result([s EXCEPT !.CR1 = ZeroCr1, !.CR2 = ZeroCr2, !.started_ = FALSE], "OK")

\* ChipSpiMasterLowLevel::stop()
\* stop() that leaves the registers as they are
ChipStopKeepingRegisters(s) ==
    IF ChipIsStarted(s) = FALSE
    THEN Result(s, "EBADF")
    ELSE IF ChipIsTransferInProgress(s) = TRUE
    THEN Result(s, "EBUSY")
    ELSE Result([s EXCEPT !.started_ = FALSE], "OK")

ChipStop(s) ==
    IF ChipIsStarted(s) = FALSE
    THEN Result(s, "EBADF")
    ELSE IF ChipIsTransferInProgress(s) = TRUE
    THEN Result(s, "EBUSY")
    ELSE Result([s EXCEPT !.CR1 = ZeroCr1, !.CR2 = ZeroCr2, !.started_ = FALSE], "OK")

\* TXE flag of SR: the TX FIFO, which holds several frames, is at most half full
\* ~ChipSpiMasterLowLevel(): the object is gone, the registers of the
\* peripheral stay as the destructor leaves them; both statements of the
\* reset assign CR1
ChipDestructor(s) ==
    IF ChipIsStarted(s) = FALSE
    THEN s
    ELSE [s EXCEPT !.CR1 = ZeroCr1]

ChipTxe(s) == s.txCount <= 1

\* value of SR seen by the interrupt handler; BSY is still asserted for a
\* short time after the last bit of a frame, hence `bsy` when nothing is queued
ChipSr(s, bsy) ==
    [OVR |-> s.OVR, RXNE |-> Len(s.rxFifo) > 0, TXE |-> ChipTxe(s),
     BSY |-> (s.txCount > 0 \/ bsy)]

\* interruptHandler(), "overrun error?" branch that retries: the TXE interrupt
\* is enabled again and the transfer goes on
ChipOverrunBranchRetrying(s, sr) ==
    [s |-> [s EXCEPT !.rxFifo = IF Len(@) > 0 THEN Tail(@) ELSE @,
                     !.OVR = FALSE,
                     !.CR2 = [s.CR2 EXCEPT !.TXEIE = TRUE]],
     done |-> FALSE]

\* interruptHandler(), "overrun error?" branch: DR and SR are read, which clears
\* OVR, and the TXE interrupt is disabled
ChipOverrunBranch(s, sr) ==
    [s |-> [s EXCEPT !.rxFifo = IF Len(@) > 0 THEN Tail(@) ELSE @,
                     !.OVR = FALSE,
                     !.CR2 = [s.CR2 EXCEPT !.TXEIE = FALSE]],
     done |-> ~sr.BSY]

\* interruptHandler(), "read?" branch with the bytes stored in the read buffer
\* swapped
ChipReadBranchHighByteFirst(s) ==
    LET wordLength == getWordLength(s.CR2)
        word == IF wordLength <= 8 THEN Head(s.rxFifo) % 256 ELSE Head(s.rxFifo)
        readPosition == s.readPosition_ + DataSize(wordLength)
        memory ==
            IF s.readBuffer_ = Nullptr
            THEN s.memory
            ELSE IF wordLength > 8
            THEN [s.memory EXCEPT ![s.readPosition_] = word \div 256,
                                  ![s.readPosition_ + 1] = word % 256]
            ELSE [s.memory EXCEPT ![s.readPosition_] = word % 256]
        done == readPosition = s.size_
    IN  [s |-> [s EXCEPT !.rxFifo = Tail(@),
                         !.memory = memory,
                         !.readPosition_ = readPosition,
                         !.CR2 = IF done THEN s.CR2 ELSE [s.CR2 EXCEPT !.TXEIE = TRUE]],
         done |-> done]

\* interruptHandler(), "read?" branch: one word is read from DR and stored in
\* the read buffer, if there is one
ChipReadBranch(s) ==
    LET wordLength == getWordLength(s.CR2)
        word == IF wordLength <= 8 THEN Head(s.rxFifo) % 256 ELSE Head(s.rxFifo)
        readPosition ==
            IF s.readBuffer_ # Nullptr
            THEN (s.readPosition_ + 1) + (IF wordLength > 8 THEN 1 ELSE 0)
            ELSE s.readPosition_ + DataSize(wordLength)
        memory ==
            IF s.readBuffer_ = Nullptr
            THEN s.memory
            ELSE IF wordLength > 8
            THEN [s.memory EXCEPT ![s.readPosition_] = word % 256,
                                  ![s.readPosition_ + 1] = word \div 256]
            ELSE [s.memory EXCEPT ![s.readPosition_] = word % 256]
        done == readPosition = s.size_
    IN  [s |-> [s EXCEPT !.rxFifo = Tail(@),
                         !.memory = memory,
                         !.readPosition_ = readPosition,
                         !.CR2 = IF done THEN s.CR2 ELSE [s.CR2 EXCEPT !.TXEIE = TRUE]],
         done |-> done]

\* interruptHandler(), "write?" branch that leaves the TXE interrupt enabled
ChipWriteBranchKeepingTxeie(s) ==
    LET wordLength == getWordLength(s.CR2)
        characterLow == SourceByte(s.writeBuffer_ + s.writePosition_)
        characterHigh == IF wordLength > 8
                         THEN SourceByte(s.writeBuffer_ + s.writePosition_ + 1)
                         ELSE 0
        word == IF s.writeBuffer_ # Nullptr
                THEN characterLow + 256 * characterHigh
                ELSE s.dummyData_ % 65536
    IN  [s |-> [s EXCEPT !.writePosition_ = @ + DataSize(wordLength),
                         !.txCount = @ + 1,
                         !.written = Append(@, IF wordLength <= 8 THEN word % 256 ELSE word)],
         done |-> FALSE]

\* interruptHandler(), "write?" branch: the next word of the write buffer, or
\* the dummy data, is written to DR and the TXE interrupt is disabled
ChipWriteBranch(s) ==
    LET wordLength == getWordLength(s.CR2)
        writePosition ==
            IF s.writeBuffer_ # Nullptr
            THEN (s.writePosition_ + 1) + (IF wordLength > 8 THEN 1 ELSE 0)
            ELSE s.writePosition_ + DataSize(wordLength)
        characterLow == SourceByte(s.writeBuffer_ + s.writePosition_)
        characterHigh == IF wordLength > 8
                         THEN SourceByte(s.writeBuffer_ + s.writePosition_ + 1)
                         ELSE 0
        word == IF s.writeBuffer_ # Nullptr
                THEN characterLow + 256 * characterHigh
                ELSE s.dummyData_ % 65536
    IN  [s |-> [s EXCEPT !.writePosition_ = writePosition,
                         !.txCount = @ + 1,
                         !.written = Append(@, IF wordLength <= 8 THEN word % 256 ELSE word),
                         !.CR2 = [s.CR2 EXCEPT !.TXEIE = FALSE]],
         done |-> FALSE]

\* the part of ChipSpiMasterLowLevel::interruptHandler() before
\* "if (done == true)": the overrun / read / write branches
ChipInterruptBranches(s, sr) ==
    IF sr.OVR /\ s.CR2.ERRIE
    THEN ChipOverrunBranch(s, sr)
    ELSE IF sr.RXNE /\ s.CR2.RXNEIE
    THEN ChipReadBranch(s)
    ELSE IF sr.TXE /\ s.CR2.TXEIE
    THEN ChipWriteBranch(s)
    ELSE [s |-> s, done |-> FALSE]

\* completion that leaves the RXNE interrupt enabled
ChipTransferDoneKeepingInterrupts(s) ==
    [s |-> [s EXCEPT !.CR2 = [s.CR2 EXCEPT !.TXEIE = FALSE, !.ERRIE = FALSE],
                     !.writePosition_ = 0,
                     !.readPosition_ = 0,
                     !.size_ = 0,
                     !.writeBuffer_ = Nullptr,
                     !.readBuffer_ = Nullptr,
                     !.spiMasterBase_ = Nullptr],
     spiMasterBase |-> s.spiMasterBase_,
     bytesTransfered |-> s.readPosition_]

\* completion that invokes the callback first and clears the transfer after it
ChipTransferDoneCallbackFirst(s) ==
    [s |-> [s EXCEPT !.spiMasterBase_ = Nullptr],
     spiMasterBase |-> s.spiMasterBase_,
     bytesTransfered |-> s.readPosition_]

\* completion that clears spiMasterBase_ only after the callback has returned
ChipTransferDoneKeepingObserver(s) ==
    [s |-> [s EXCEPT !.CR2 = [s.CR2 EXCEPT !.TXEIE = FALSE, !.RXNEIE = FALSE,
                                           !.ERRIE = FALSE],
                     !.writePosition_ = 0,
                     !.readPosition_ = 0,
                     !.size_ = 0,
                     !.writeBuffer_ = Nullptr,
                     !.readBuffer_ = Nullptr],
     spiMasterBase |-> s.spiMasterBase_,
     bytesTransfered |-> s.readPosition_]

\* the "if (done == true)" block of ChipSpiMasterLowLevel::interruptHandler(),
\* up to the call of transferCompleteEvent(): the state in which the callback
\* is invoked, the observer that is called and the value it is given
ChipTransferDone(s) ==
    [s |-> [s EXCEPT !.CR2 = [s.CR2 EXCEPT !.TXEIE = FALSE, !.RXNEIE = FALSE,
                                           !.ERRIE = FALSE],
                     !.writePosition_ = 0,
                     !.readPosition_ = 0,
                     !.size_ = 0,
                     !.writeBuffer_ = Nullptr,
                     !.readBuffer_ = Nullptr,
                     !.spiMasterBase_ = Nullptr],
     spiMasterBase |-> s.spiMasterBase_,
     bytesTransfered |-> s.readPosition_]

(***************************************************************************)
(* DmaChannel (DMAv2).  DmaChannel.hpp declares the driver; its member     *)
(* functions are defined outside of the sources at hand and are modelled   *)
(* from their documented contracts.  A channel is a record of the object's *)
(* fields and of the registers of the DMA stream:                          *)
(*   EN - stream enabled, NDTR - transactions left, M0AR / PAR - memory /  *)
(*   peripheral address, CR - configuration flags, TCIF / TEIF - pending   *)
(*   "transfer complete" / "transfer error" interrupt flags                *)
(***************************************************************************)

\* DmaChannelFlags, as a record of the groups of flags
Flags(tcie, direction, memoryIncrement, dataSize, priority) ==
    [transferCompleteInterruptEnable |-> tcie, direction |-> direction,
     peripheralIncrement |-> FALSE, memoryIncrement |-> memoryIncrement,
     peripheralDataSize |-> dataSize, memoryDataSize |-> dataSize,
     priority |-> priority, peripheralBurstSize |-> 1, memoryBurstSize |-> 1]

\* DmaChannelFlags{}
ZeroFlags == Flags(FALSE, "peripheralToMemory", FALSE, 1, "lowPriority")

\* DmaChannel's constructor
DmaChannelInit ==
    [functor_ |-> Nullptr, request_ |-> 0, EN |-> FALSE, NDTR |-> 0,
     M0AR |-> 0, PAR |-> 0, CR |-> ZeroFlags, TCIF |-> FALSE, TEIF |-> FALSE]

\* DmaChannel::reserve()
DmaChannelReserve(c, request, functor) ==
    IF c.functor_ # Nullptr
    THEN [c |-> c, ret |-> "EBUSY"]
    ELSE IF request > 15
    THEN [c |-> c, ret |-> "EINVAL"]
    ELSE [c |-> [c EXCEPT !.functor_ = functor, !.request_ = request], ret |-> "OK"]

\* DmaChannel::release()
DmaChannelRelease(c) == [c EXCEPT !.functor_ = Nullptr, !.request_ = 0]

Min(a, b) == IF a < b THEN a ELSE b

\* DmaChannel::configureTransfer()
DmaChannelConfigureTransfer(c, memoryAddress, peripheralAddress, transactions, flags) ==
    IF c.EN
    THEN [c |-> c, ret |-> "EBUSY"]
    ELSE IF \/ memoryAddress % Min(flags.memoryDataSize * flags.memoryBurstSize, 16) # 0
            \/ peripheralAddress % (flags.peripheralDataSize * flags.peripheralBurstSize) # 0
            \/ transactions = 0
    THEN [c |-> c, ret |-> "EINVAL"]
    ELSE IF transactions > 65535
    THEN [c |-> c, ret |-> "ENOTSUP"]
    ELSE [c |-> [c EXCEPT !.M0AR = memoryAddress, !.PAR = peripheralAddress,
                          !.NDTR = transactions, !.CR = flags],
          ret |-> "OK"]

\* DmaChannel::startTransfer()
DmaChannelStartTransfer(c) ==
    IF c.EN
    THEN [c |-> c, ret |-> "EBUSY"]
    ELSE [c |-> [c EXCEPT !.EN = TRUE], ret |-> "OK"]

\* DmaChannel::stopTransfer()
DmaChannelStopTransfer(c) == [c EXCEPT !.EN = FALSE, !.TCIF = FALSE, !.TEIF = FALSE]

\* DmaChannel::getTransactionsLeft()
DmaChannelGetTransactionsLeft(c) == c.NDTR

(***************************************************************************)
(* SpiMasterLowLevelDmaBased: the DMA-based driver.  A state `s` is a      *)
(* record of the object's fields, the CR1 and CR2 registers of its SPI     *)
(* peripheral, the two DMA channels, the handles (the channel_ field of    *)
(* the driver's two UniqueHandle objects and of one handle owned by some   *)
(* other driver) and inFlight: the words clocked out by the TX channel     *)
(* that the RX channel has not yet stored.                                 *)
(***************************************************************************)

\* rxDmaChannel_ / txDmaChannel_: the channels the driver is constructed with
rxDmaChannel_ == 1

txDmaChannel_ == 2

\* rxDmaRequest_ / txDmaRequest_: request identifiers the driver is constructed with
rxDmaRequest_ == 3

txDmaRequest_ == 4

\* rxDmaChannelFunctor_ / txDmaChannelFunctor_ and the functor of the other driver
rxDmaChannelFunctor_ == 1

txDmaChannelFunctor_ == 2

otherFunctor == 3

\* the handles
rxDmaChannelUniqueHandle_ == 1

txDmaChannelUniqueHandle_ == 2

otherUniqueHandle == 3

\* &rxDummyData_ and &txDummyData_ (uint16_t members of the driver)
rxDummyDataAddress == 32

txDummyDataAddress == 34

\* spiPeripheral_.getDrAddress(): offset of DR in the SPI registers
DrAddress == 12

DmaChannels == {rxDmaChannel_, txDmaChannel_}

UniqueHandles == {rxDmaChannelUniqueHandle_, txDmaChannelUniqueHandle_, otherUniqueHandle}

DmaInit ==
    [started_ |-> FALSE, spiMasterBase_ |-> Nullptr, size_ |-> 0, wordLength_ |-> 8,
     txDummyData_ |-> 0, CR1 |-> ZeroCr1, CR2 |-> ZeroCr2,
     channels |-> [c \in DmaChannels |-> DmaChannelInit],
     channel_ |-> [h \in UniqueHandles |-> Nullptr],
     inFlight |-> 0]

DmaIsStarted(s) == s.started_

DmaIsTransferInProgress(s) == s.spiMasterBase_ # Nullptr

\* DmaChannel::UniqueHandle::release()
\* release() that forgets the channel without releasing it
UniqueHandleReleaseKeepingFunctor(s, h) == [s EXCEPT !.channel_[h] = Nullptr]

\* release() that releases the channel and keeps referencing it
UniqueHandleReleaseKeepingChannel(s, h) ==
    IF s.channel_[h] = Nullptr
    THEN s
    ELSE [s EXCEPT !.channels[s.channel_[h]] = DmaChannelRelease(@)]

UniqueHandleRelease(s, h) ==
    IF s.channel_[h] = Nullptr
    THEN s
    ELSE [s EXCEPT !.channels[s.channel_[h]] = DmaChannelRelease(@),
                   !.channel_[h] = Nullptr]

\* DmaChannel::UniqueHandle::~UniqueHandle()
\* a destructor that does not release
UniqueHandleDestroyWithoutRelease(s, h) == s

UniqueHandleDestroy(s, h) == UniqueHandleRelease(s, h)

\* DmaChannel::UniqueHandle::reserve()
\* reserve() that associates the handle whatever DmaChannel::reserve() returned
UniqueHandleReserveIgnoringResult(s, h, channel, request, functor) ==
    LET released == UniqueHandleRelease(s, h)
        r == DmaChannelReserve(released.channels[channel], request, functor)
    IN  Result([released EXCEPT !.channels[channel] = r.c, !.channel_[h] = channel], r.ret)

\* reserve() without the leading release()
UniqueHandleReserveWithoutRelease(s, h, channel, request, functor) ==
    LET r == DmaChannelReserve(s.channels[channel], request, functor)
    IN  IF r.ret # "OK"
        THEN Result(s, r.ret)
        ELSE Result([s EXCEPT !.channels[channel] = r.c, !.channel_[h] = channel], "OK")

UniqueHandleReserve(s, h, channel, request, functor) ==
    LET released == UniqueHandleRelease(s, h)
        r == DmaChannelReserve(released.channels[channel], request, functor)
    IN  IF r.ret # "OK"
        THEN Result(released, r.ret)
        ELSE Result([released EXCEPT !.channels[channel] = r.c, !.channel_[h] = channel], "OK")

\* DmaChannel::UniqueHandle::configureTransfer()
\* configureTransfer() that also enables the channel
UniqueHandleConfigureTransferStarting(s, h, memoryAddress, peripheralAddress, transactions, flags) ==
    IF s.channel_[h] = Nullptr
    THEN Result(s, "EBADF")
    ELSE LET r == DmaChannelConfigureTransfer(s.channels[s.channel_[h]], memoryAddress,
                      peripheralAddress, transactions, flags)
         IN  Result([s EXCEPT !.channels[s.channel_[h]] = [r.c EXCEPT !.EN = (r.ret = "OK")]],
                    r.ret)

UniqueHandleConfigureTransfer(s, h, memoryAddress, peripheralAddress, transactions, flags) ==
    IF s.channel_[h] = Nullptr
    THEN Result(s, "EBADF")
    ELSE LET r == DmaChannelConfigureTransfer(s.channels[s.channel_[h]], memoryAddress,
                      peripheralAddress, transactions, flags)
         IN  Result([s EXCEPT !.channels[s.channel_[h]] = r.c], r.ret)

\* DmaChannel::UniqueHandle::startTransfer()
\* startTransfer() that stops a running transfer and starts again
UniqueHandleStartTransferRestarting(s, h) ==
    IF s.channel_[h] = Nullptr
    THEN Result(s, "EBADF")
    ELSE LET r == DmaChannelStartTransfer(DmaChannelStopTransfer(s.channels[s.channel_[h]]))
         IN  Result([s EXCEPT !.channels[s.channel_[h]] = r.c], r.ret)

UniqueHandleStartTransfer(s, h) ==
    IF s.channel_[h] = Nullptr
    THEN Result(s, "EBADF")
    ELSE LET r == DmaChannelStartTransfer(s.channels[s.channel_[h]])
         IN  Result([s EXCEPT !.channels[s.channel_[h]] = r.c], r.ret)

\* DmaChannel::UniqueHandle::stopTransfer()
\* stopTransfer() that returns 0 without stopping the channel
UniqueHandleStopTransferKeepingChannel(s, h) ==
    IF s.channel_[h] = Nullptr
    THEN Result(s, "EBADF")
    ELSE Result(s, "OK")

\* stopTransfer() without the check for an empty handle
UniqueHandleStopTransferOnEmptyHandle(s, h) ==
    IF s.channel_[h] = Nullptr
    THEN Result(s, "OK")
    ELSE Result([s EXCEPT !.channels[s.channel_[h]] = DmaChannelStopTransfer(@)], "OK")

UniqueHandleStopTransfer(s, h) ==
    IF s.channel_[h] = Nullptr
    THEN Result(s, "EBADF")
    ELSE Result([s EXCEPT !.channels[s.channel_[h]] = DmaChannelStopTransfer(@)], "OK")

\* DmaChannel::UniqueHandle::getTransactionsLeft()
UniqueHandleGetTransactionsLeft(s, h) ==
    IF s.channel_[h] = Nullptr
    THEN [ret |-> "EBADF", transactionsLeft |-> 0]
    ELSE [ret |-> "OK",
          transactionsLeft |-> DmaChannelGetTransactionsLeft(s.channels[s.channel_[h]])]

\* configureSpi(): configures CR1 and CR2 of the SPI peripheral
configureSpi(s, mode, clockFrequency, wordLength, lsbFirst) ==
    IF wordLength < minWordLength \/ wordLength > maxWordLength
    THEN [s |-> s, ret |-> "EINVAL", frequency |-> 0]
    ELSE IF clockFrequency = 0
    THEN [s |-> s, ret |-> "EINVAL", frequency |-> 0]
    ELSE
        LET divider == (PeripheralFrequency + clockFrequency - 1) \div clockFrequency
        IN  IF divider > 256
            THEN [s |-> s, ret |-> "EINVAL", frequency |-> 0]
            ELSE
                LET br == IF divider <= 2 THEN 0 ELSE HighestBit(divider - 1)
                    cr1 == [s.CR1 EXCEPT !.LSBFIRST = lsbFirst, !.BR = br,
                                !.CPOL = mode \in {"cpol1cpha0", "cpol1cpha1"},
                                !.CPHA = mode \in {"cpol0cpha1", "cpol1cpha1"}]
                    cr2 == [s.CR2 EXCEPT !.FRXTH = (wordLength <= 8), !.DS = wordLength - 1]
                IN  [s |-> [s EXCEPT !.CR1 = cr1, !.CR2 = cr2],
                     ret |-> "OK",
                     frequency |-> PeripheralFrequency \div Pow2(br + 1)]

\* configure() that does not check whether a transfer is in progress
DmaConfigureWithoutBusyCheck(s, mode, clockFrequency, wordLength, lsbFirst, dummyData) ==
    IF DmaIsStarted(s) = FALSE
    THEN [s |-> s, ret |-> "EBADF", frequency |-> 0]
    ELSE LET ret == configureSpi(s, mode, clockFrequency, wordLength, lsbFirst)
         IN  IF ret.ret # "OK"
             THEN ret
             ELSE [ret EXCEPT !.s = [ret.s EXCEPT !.txDummyData_ = dummyData,
                                                  !.wordLength_ = wordLength]]

\* SpiMasterLowLevelDmaBased::configure()
\* configure() that stores the dummy data and the word length before it
\* looks at the result of configureSpi()
DmaConfigureStoringBeforeCheck(s, mode, clockFrequency, wordLength, lsbFirst, dummyData) ==
    IF DmaIsStarted(s) = FALSE
    THEN [s |-> s, ret |-> "EBADF", frequency |-> 0]
    ELSE IF DmaIsTransferInProgress(s) = TRUE
    THEN [s |-> s, ret |-> "EBUSY", frequency |-> 0]
    ELSE LET ret == configureSpi(s, mode, clockFrequency, wordLength, lsbFirst)
         IN  [ret EXCEPT !.s = [ret.s EXCEPT !.txDummyData_ = dummyData,
                                             !.wordLength_ = wordLength]]

DmaConfigure(s, mode, clockFrequency, wordLength, lsbFirst, dummyData) ==
    IF DmaIsStarted(s) = FALSE
    THEN [s |-> s, ret |-> "EBADF", frequency |-> 0]
    ELSE IF DmaIsTransferInProgress(s) = TRUE
    THEN [s |-> s, ret |-> "EBUSY", frequency |-> 0]
    ELSE LET ret == configureSpi(s, mode, clockFrequency, wordLength, lsbFirst)
         IN  IF ret.ret # "OK"
             THEN ret
             ELSE [ret EXCEPT !.s = [ret.s EXCEPT !.txDummyData_ = dummyData,
                                                  !.wordLength_ = wordLength]]

\* start() without the scope guard: the RX handle stays reserved when the
\* reservation of the TX channel fails
DmaStartWithoutScopeGuard(s) ==
    IF DmaIsStarted(s) = TRUE
    THEN Result(s, "EBADF")
    ELSE
        LET rx == UniqueHandleReserve(s, rxDmaChannelUniqueHandle_, rxDmaChannel_,
                      rxDmaRequest_, rxDmaChannelFunctor_)
        IN  IF rx.ret # "OK"
            THEN rx
            ELSE
                LET tx == UniqueHandleReserve(rx.s, txDmaChannelUniqueHandle_, txDmaChannel_,
                              txDmaRequest_, txDmaChannelFunctor_)
                IN  IF tx.ret # "OK"
                    THEN tx
                    ELSE Result([tx.s EXCEPT
                                    !.wordLength_ = 8,
                                    !.CR1 = InitialCr1,
                                    !.CR2 = [ZeroCr2 EXCEPT !.FRXTH = TRUE, !.DS = 8 - 1,
                                                            !.TXDMAEN = TRUE, !.RXDMAEN = TRUE],
                                    !.started_ = TRUE],
                                "OK")

\* start() that resets the peripheral before it reserves the channels
DmaStartWritingRegistersFirst(s) ==
    IF DmaIsStarted(s) = TRUE
    THEN Result(s, "EBADF")
    ELSE
        LET written == [s EXCEPT !.CR1 = InitialCr1,
                                 !.CR2 = [ZeroCr2 EXCEPT !.FRXTH = TRUE, !.DS = 8 - 1,
                                                         !.TXDMAEN = TRUE, !.RXDMAEN = TRUE]]
            rx == UniqueHandleReserve(written, rxDmaChannelUniqueHandle_, rxDmaChannel_,
                      rxDmaRequest_, rxDmaChannelFunctor_)
            tx == UniqueHandleReserve(rx.s, txDmaChannelUniqueHandle_, txDmaChannel_,
                      txDmaRequest_, txDmaChannelFunctor_)
        IN  IF rx.ret # "OK"
            THEN rx
            ELSE IF tx.ret # "OK"
            THEN Result(UniqueHandleRelease(tx.s, rxDmaChannelUniqueHandle_), tx.ret)
            ELSE Result([tx.s EXCEPT !.wordLength_ = 8, !.started_ = TRUE], "OK")

\* SpiMasterLowLevelDmaBased::start()
DmaStart(s) ==
    IF DmaIsStarted(s) = TRUE
    THEN Result(s, "EBADF")
    ELSE
        LET rx == UniqueHandleReserve(s, rxDmaChannelUniqueHandle_, rxDmaChannel_,
                      rxDmaRequest_, rxDmaChannelFunctor_)
        IN  IF rx.ret # "OK"
            THEN rx
            ELSE
                LET tx == UniqueHandleReserve(rx.s, txDmaChannelUniqueHandle_, txDmaChannel_,
                              txDmaRequest_, txDmaChannelFunctor_)
                IN  IF tx.ret # "OK"
                    THEN \* rxDmaChannelUniqueHandleScopeGuard releases the RX handle
                         Result(UniqueHandleRelease(tx.s, rxDmaChannelUniqueHandle_), tx.ret)
                    ELSE Result([tx.s EXCEPT
                                    !.wordLength_ = 8,
                                    !.CR1 = InitialCr1,
                                    !.CR2 = [ZeroCr2 EXCEPT !.FRXTH = TRUE, !.DS = 8 - 1,
                                                            !.TXDMAEN = TRUE, !.RXDMAEN = TRUE],
                                    !.started_ = TRUE],
                                "OK")

\* startTransfer() that does not check size against the size of a word: the
\* number of transactions is rounded down
DmaStartTransferWithoutSizeCheck(s, spiMasterBase, writeBuffer, readBuffer, size) ==
    IF size = 0
    THEN Result(s, "EINVAL")
    ELSE IF DmaIsStarted(s) = FALSE
    THEN Result(s, "EBADF")
    ELSE IF DmaIsTransferInProgress(s) = TRUE
    THEN Result(s, "EBUSY")
    ELSE
        LET dataSize == DataSize(s.wordLength_)
            transactions == size \div dataSize
            rxFlags == Flags(TRUE, "peripheralToMemory", readBuffer # Nullptr,
                           dataSize, "veryHighPriority")
            txFlags == Flags(FALSE, "memoryToPeripheral", writeBuffer # Nullptr,
                           dataSize, "lowPriority")
            rx == UniqueHandleConfigureTransfer(s, rxDmaChannelUniqueHandle_,
                      IF readBuffer # Nullptr THEN readBuffer ELSE rxDummyDataAddress,
                      DrAddress, transactions, rxFlags)
            tx == UniqueHandleConfigureTransfer(rx.s, txDmaChannelUniqueHandle_,
                      IF writeBuffer # Nullptr THEN writeBuffer ELSE txDummyDataAddress,
                      DrAddress, transactions, txFlags)
            armed == [tx.s EXCEPT !.spiMasterBase_ = spiMasterBase, !.size_ = size]
            rxStarted == UniqueHandleStartTransfer(armed, rxDmaChannelUniqueHandle_)
            txStarted == UniqueHandleStartTransfer(rxStarted.s, txDmaChannelUniqueHandle_)
        IN  IF rx.ret # "OK"
            THEN rx
            ELSE IF tx.ret # "OK"
            THEN tx
            ELSE Result(txStarted.s, "OK")

\* SpiMasterLowLevelDmaBased::startTransfer()
DmaStartTransfer(s, spiMasterBase, writeBuffer, readBuffer, size) ==
    IF size = 0
    THEN Result(s, "EINVAL")
    ELSE IF DmaIsStarted(s) = FALSE
    THEN Result(s, "EBADF")
    ELSE IF DmaIsTransferInProgress(s) = TRUE
    THEN Result(s, "EBUSY")
    ELSE
        LET dataSize == DataSize(s.wordLength_)
        IN  IF size % dataSize # 0
            THEN Result(s, "EINVAL")
            ELSE
                LET transactions == size \div dataSize
                    rxFlags == Flags(TRUE, "peripheralToMemory", readBuffer # Nullptr,
                                   dataSize, "veryHighPriority")
                    txFlags == Flags(FALSE, "memoryToPeripheral", writeBuffer # Nullptr,
                                   dataSize, "lowPriority")
                    rx == UniqueHandleConfigureTransfer(s, rxDmaChannelUniqueHandle_,
                              IF readBuffer # Nullptr THEN readBuffer ELSE rxDummyDataAddress,
                              DrAddress, transactions, rxFlags)
                    tx == UniqueHandleConfigureTransfer(rx.s, txDmaChannelUniqueHandle_,
                              IF writeBuffer # Nullptr THEN writeBuffer ELSE txDummyDataAddress,
                              DrAddress, transactions, txFlags)
                    armed == [tx.s EXCEPT !.spiMasterBase_ = spiMasterBase, !.size_ = size]
                    rxStarted == UniqueHandleStartTransfer(armed, rxDmaChannelUniqueHandle_)
                    txStarted == UniqueHandleStartTransfer(rxStarted.s, txDmaChannelUniqueHandle_)
                IN  IF rx.ret # "OK"
                    THEN rx
                    ELSE IF tx.ret # "OK"
                    THEN tx
                    ELSE Result(txStarted.s, "OK")

\* SpiMasterLowLevelDmaBased::stop()
\* ~SpiMasterLowLevelDmaBased(), followed by the destructors of its two
\* UniqueHandle members
DmaDestructor(s) ==
    LET reset == IF DmaIsStarted(s) = FALSE
                 THEN s
                 ELSE [s EXCEPT !.CR1 = ZeroCr1, !.CR2 = ZeroCr2]
    IN  UniqueHandleDestroy(UniqueHandleDestroy(reset, txDmaChannelUniqueHandle_),
            rxDmaChannelUniqueHandle_)

\* stop() that releases only the RX channel
DmaStopKeepingTxChannel(s) ==
    IF DmaIsStarted(s) = FALSE
    THEN Result(s, "EBADF")
    ELSE IF DmaIsTransferInProgress(s) = TRUE
    THEN Result(s, "EBUSY")
    ELSE LET released == UniqueHandleRelease(s, rxDmaChannelUniqueHandle_)
         IN  Result([released EXCEPT !.CR1 = ZeroCr1, !.CR2 = ZeroCr2, !.started_ = FALSE],
                    "OK")

DmaStop(s) ==
    IF DmaIsStarted(s) = FALSE
    THEN Result(s, "EBADF")
    ELSE IF DmaIsTransferInProgress(s) = TRUE
    THEN Result(s, "EBUSY")
    ELSE LET released == UniqueHandleRelease(
                             UniqueHandleRelease(s, rxDmaChannelUniqueHandle_),
                             txDmaChannelUniqueHandle_)
         IN  Result([released EXCEPT !.CR1 = ZeroCr1, !.CR2 = ZeroCr2, !.started_ = FALSE],
                    "OK")

\* eventHandler() that does not stop the two channels
DmaEventHandlerWithoutStop(s, transactionsLeft) ==
    [s |-> [s EXCEPT !.size_ = 0, !.spiMasterBase_ = Nullptr],
     spiMasterBase |-> s.spiMasterBase_,
     bytesTransfered |-> SizeT(s.size_ - transactionsLeft * DataSize(s.wordLength_))]

\* eventHandler() that clears size_ before it computes the bytes transferred
DmaEventHandlerSizeCleared(s, transactionsLeft) ==
    LET txStopped == UniqueHandleStopTransfer(s, txDmaChannelUniqueHandle_).s
        rxStopped == UniqueHandleStopTransfer(txStopped, rxDmaChannelUniqueHandle_).s
    IN  [s |-> [rxStopped EXCEPT !.size_ = 0, !.spiMasterBase_ = Nullptr],
         spiMasterBase |-> s.spiMasterBase_,
         bytesTransfered |-> SizeT(0 - transactionsLeft * DataSize(s.wordLength_))]

\* SpiMasterLowLevelDmaBased::eventHandler(), up to the call of
\* transferCompleteEvent(): the state in which the callback is invoked, the
\* observer that is called and the value it is given
DmaEventHandler(s, transactionsLeft) ==
    LET txStopped == UniqueHandleStopTransfer(s, txDmaChannelUniqueHandle_).s
        rxStopped == UniqueHandleStopTransfer(txStopped, rxDmaChannelUniqueHandle_).s
    IN  [s |-> [rxStopped EXCEPT !.size_ = 0, !.spiMasterBase_ = Nullptr],
         spiMasterBase |-> s.spiMasterBase_,
         bytesTransfered |-> SizeT(s.size_ - transactionsLeft * DataSize(s.wordLength_))]

\* DmaChannel::interruptHandler(): clears the pending flag and selects the
\* event delivered to the functor
\* an interrupt handler that dispatches a transfer error without clearing its flag
DmaChannelInterruptHandlerKeepingFlag(c) ==
    IF c.TEIF
    THEN [c |-> c, event |-> "transferErrorEvent",
          transactionsLeft |-> DmaChannelGetTransactionsLeft(c)]
    ELSE IF c.TCIF /\ c.CR.transferCompleteInterruptEnable
    THEN [c |-> [c EXCEPT !.TCIF = FALSE], event |-> "transferCompleteEvent",
          transactionsLeft |-> 0]
    ELSE [c |-> c, event |-> "none", transactionsLeft |-> 0]

DmaChannelInterruptHandler(c) ==
    IF c.TEIF
    THEN [c |-> [c EXCEPT !.TEIF = FALSE], event |-> "transferErrorEvent",
          transactionsLeft |-> DmaChannelGetTransactionsLeft(c)]
    ELSE IF c.TCIF /\ c.CR.transferCompleteInterruptEnable
    THEN [c |-> [c EXCEPT !.TCIF = FALSE], event |-> "transferCompleteEvent",
          transactionsLeft |-> 0]
    ELSE [c |-> c, event |-> "none", transactionsLeft |-> 0]

\* RxDmaChannelFunctor::transferCompleteEvent()
RxTransferCompleteEvent(s) == DmaEventHandler(s, 0)

\* RxDmaChannelFunctor::transferErrorEvent()
RxTransferErrorEvent(s, transactionsLeft) == DmaEventHandler(s, transactionsLeft)

\* TxDmaChannelFunctor::transferErrorEvent()
TxTransferErrorEvent(s, transactionsLeft) == DmaEventHandler(s, transactionsLeft)

\* the functor's member function run for `event`, when it is one that ends in
\* a call of SpiMasterLowLevelDmaBased::eventHandler()
FunctorHandlesEvent(functor, event) ==
    \/ functor = rxDmaChannelFunctor_ /\ event \in {"transferCompleteEvent", "transferErrorEvent"}
    \/ functor = txDmaChannelFunctor_ /\ event = "transferErrorEvent"

FunctorEvent(s, functor, event, transactionsLeft) ==
    IF functor = rxDmaChannelFunctor_
    THEN IF event = "transferCompleteEvent"
         THEN RxTransferCompleteEvent(s)
         ELSE RxTransferErrorEvent(s, transactionsLeft)
    ELSE TxTransferErrorEvent(s, transactionsLeft)

(***************************************************************************)
(* The state machine                                                       *)
(***************************************************************************)

VARIABLES
    variant,        \* "irq": ChipSpiMasterLowLevel runs, "dma": SpiMasterLowLevelDmaBased
    chip,           \* state of ChipSpiMasterLowLevel and its peripheral
    dma,            \* state of SpiMasterLowLevelDmaBased, its peripheral and DMA channels
    last,           \* the last step: operation, arguments, returned value, callback
    outstanding,    \* startTransfer() calls that returned 0 minus callbacks delivered
    requested,      \* `size` of the last startTransfer() that returned 0
    control         \* where the thread and the interrupt handler are in their code

vars == <<variant, chip, dma, last, outstanding, requested, control>>

\* no call is being executed: the thread is outside of the driver and no
\* interrupt handler runs
NoControl ==
    [pc |-> "idle", isr |-> "none", arguments |-> Nullptr, transactionsLeft |-> 0,
     bytesTransfered |-> 0, spiMasterBase |-> Nullptr, failed |-> FALSE]

\* lifecycle state of a driver
Lifecycle(s) ==
    IF ~s.started_ THEN "STOPPED"
    ELSE IF s.spiMasterBase_ = Nullptr THEN "IDLE"
    ELSE "BUSY"

\* the driver that runs
Driver == IF variant = "irq" THEN chip ELSE dma

NoLast ==
    [op |-> "none", pre |-> "STOPPED", ret |-> "none", frequency |-> 0,
     size |-> 0, aligned |-> TRUE, wordLength |-> 0,
     unchanged |-> TRUE, registersUnchanged |-> TRUE, pending |-> 0,
     callback |-> FALSE, bytesTransfered |-> 0, completedSize |-> 0,
     outstandingBefore |-> 0, callee |-> Nullptr, observerInCallback |-> Nullptr,
     lifecycleInCallback |-> "STOPPED", nested |-> FALSE,
     overrun |-> FALSE, busy |-> FALSE, readPosition |-> 0, readBuffer |-> Nullptr,
     writeBuffer |-> Nullptr, memory |-> FreshMemory, written |-> <<>>,
     rxTransactionsLeft |-> 0, event |-> "none", functor |-> Nullptr,
     handle |-> Nullptr, channel |-> Nullptr, request |-> 0, held |-> Nullptr,
     holder |-> Nullptr, channelUnchanged |-> TRUE, arguments |-> Nullptr,
     transactionsLeft |-> 0, flagsBefore |-> Nullptr, dma |-> Nullptr,
     inCallback |-> Nullptr, statement |-> "none", changed |-> {}, armed |-> FALSE]

\* the registers in a state of either driver: CR1 and CR2 of the SPI
\* peripheral and the words written to DR, and the registers of the DMA streams
Registers(s) ==
    IF "channels" \in DOMAIN s
    THEN <<s.CR1, s.CR2,
           [c \in DmaChannels |->
               <<s.channels[c].EN, s.channels[c].NDTR, s.channels[c].M0AR,
                 s.channels[c].PAR, s.channels[c].CR, s.channels[c].TCIF,
                 s.channels[c].TEIF>>]>>
    ELSE <<s.CR1, s.CR2, s.txCount>>

\* a call of `op` in state `s` that returned r.ret and left state r.s
Called(op, s, r) ==
    [NoLast EXCEPT !.op = op, !.pre = Lifecycle(s), !.ret = r.ret,
                   !.unchanged = (r.s = s),
                   !.registersUnchanged = (Registers(r.s) = Registers(s))]

CalledConfigure(s, r, wordLength) ==
    [Called("configure", s, r) EXCEPT !.frequency = r.frequency, !.wordLength = wordLength]

\* whether both buffers are aligned to a halfword
HalfwordAligned(buffers) == buffers.writeBuffer % 2 = 0 /\ buffers.readBuffer % 2 = 0

CalledStartTransfer(s, r, buffers, size) ==
    [Called("startTransfer", s, r) EXCEPT !.size = size, !.aligned = HalfwordAligned(buffers)]

\* a step of the hardware or of another driver
Stepped(op, s) == [NoLast EXCEPT !.op = op, !.pre = Lifecycle(s)]

\* what the observer does inside transferCompleteEvent(): nothing, or a call of
\* startTransfer() on the same driver
NestedCalls ==
    {[call |-> FALSE, buffers |-> [writeBuffer |-> Nullptr, readBuffer |-> Nullptr], size |-> 0]}
    \cup [call : {TRUE}, buffers : BufferArguments, size : Sizes]

\* an interrupt handler that invoked transferCompleteEvent(): `pre` is the state
\* before the handler, `pending` the number of DMA channels with an event to
\* deliver, `done` the record of the completion (state in which the callback
\* runs, observer called, value passed), `nested` the observer's reaction and
\* `r` the result of a nested startTransfer()
Completed(pre, pending, done, nested, r) ==
    [NoLast EXCEPT !.op = "interruptHandler", !.pre = Lifecycle(pre), !.ret = r.ret,
                   !.size = nested.size, !.aligned = HalfwordAligned(nested.buffers),
                   !.unchanged = (r.s = done.s),
                   !.registersUnchanged = (Registers(r.s) = Registers(done.s)),
                   !.pending = pending,
                   !.callback = TRUE, !.bytesTransfered = done.bytesTransfered,
                   !.completedSize = requested, !.outstandingBefore = outstanding,
                   !.callee = done.spiMasterBase,
                   !.observerInCallback = done.s.spiMasterBase_,
                   !.lifecycleInCallback = Lifecycle(done.s),
                   !.nested = nested.call]

\* the interrupt enable bits and the transfer fields of the interrupt-based
\* driver
ChipTransferState(s) ==
    [TXEIE |-> s.CR2.TXEIE, RXNEIE |-> s.CR2.RXNEIE, ERRIE |-> s.CR2.ERRIE,
     writePosition |-> s.writePosition_, readPosition |-> s.readPosition_,
     size |-> s.size_, writeBuffer |-> s.writeBuffer_, readBuffer |-> s.readBuffer_]

\* a completion of the interrupt-based driver: also the state of the transfer
\* before the handler ran, the read buffer and the words written to DR as they
\* are when the callback is invoked
ChipCompleted(pre, done, nested, r) ==
    [Completed(pre, 0, done, nested, r) EXCEPT
        !.overrun = (pre.OVR /\ pre.CR2.ERRIE),
        !.readPosition = pre.readPosition_,
        !.readBuffer = pre.readBuffer_,
        !.writeBuffer = pre.writeBuffer_,
        !.memory = done.s.memory,
        !.written = done.s.written,
        !.inCallback = ChipTransferState(done.s)]

\* a completion of the DMA-based driver: also the event and the functor that
\* received it, and the transactions the RX channel had left at the event
DmaCompleted(pre, pending, functor, event, done, nested, r) ==
    [Completed(pre, pending, done, nested, r) EXCEPT
        !.event = event,
        !.functor = functor,
        !.rxTransactionsLeft = pre.channels[rxDmaChannel_].NDTR]

\* the observer takes the received bytes out of the read buffer inside
\* transferCompleteEvent(); the log of the words written to DR starts anew
Recycled(s) == [s EXCEPT !.memory = FreshMemory, !.written = <<>>]

Init ==
    /\ variant \in {"irq", "dma"}
    /\ control = NoControl
    /\ chip = ChipInit
    /\ dma = DmaInit
    /\ last = NoLast
    /\ outstanding = 0
    /\ requested = 0

\* bookkeeping of a thread-context startTransfer() that returned `ret`
Started(ret, size) ==
    /\ outstanding' = IF ret = "OK" THEN outstanding + 1 ELSE outstanding
    /\ requested' = IF ret = "OK" THEN size ELSE requested

\* bookkeeping of a callback during which a nested startTransfer() returned `ret`
Delivered(nested, ret) ==
    /\ outstanding' = IF nested.call /\ ret = "OK" THEN outstanding ELSE outstanding - 1
    /\ requested' = IF nested.call /\ ret = "OK" THEN nested.size ELSE 0

(***************************************************************************)
(* ChipSpiMasterLowLevel: calls from thread context, the interrupt and the *)
(* peripheral                                                              *)
(***************************************************************************)

ChipStartCall ==
    /\ variant = "irq"
    /\ LET r == ChipStart(chip)
       IN  /\ chip' = r.s
           /\ last' = Called("start", chip, r)
    /\ UNCHANGED <<variant, control, dma, outstanding, requested>>

ChipStopCall ==
    /\ variant = "irq"
    /\ LET r == ChipStop(chip)
       IN  /\ chip' = r.s
           /\ last' = Called("stop", chip, r)
    /\ UNCHANGED <<variant, control, dma, outstanding, requested>>

ChipConfigureCall ==
    /\ variant = "irq"
    /\ \E a \in ConfigureArguments, undefinedDivider \in UndefinedDividers :
          LET r == ChipConfigure(chip, a.mode, a.clockFrequency, a.wordLength, a.lsbFirst,
                       a.dummyData, undefinedDivider)
          IN  /\ chip' = r.s
              /\ last' = [CalledConfigure(chip, r, a.wordLength) EXCEPT !.arguments = a]
    /\ UNCHANGED <<variant, control, dma, outstanding, requested>>

ChipStartTransferCall ==
    /\ variant = "irq"
    /\ \E spiMasterBase \in Observers, buffers \in BufferArguments, size \in Sizes :
          LET r == ChipStartTransfer(chip, spiMasterBase, buffers.writeBuffer,
                       buffers.readBuffer, size)
          IN  /\ chip' = r.s
              /\ last' = CalledStartTransfer(chip, r, buffers, size)
              /\ Started(r.ret, size)
    /\ UNCHANGED <<variant, control, dma>>

\* the SPI interrupt is requested: a flag of SR is set and enabled in CR2
ChipInterruptPending(s) ==
    \/ s.OVR /\ s.CR2.ERRIE
    \/ Len(s.rxFifo) > 0 /\ s.CR2.RXNEIE
    \/ ChipTxe(s) /\ s.CR2.TXEIE

\* ChipSpiMasterLowLevel::interruptHandler(), with the observer's callback
ChipInterruptHandler ==
    /\ variant = "irq"
    /\ ChipInterruptPending(chip)
    /\ \E bsy \in BOOLEAN :
          LET b == ChipInterruptBranches(chip, ChipSr(chip, bsy))
          IN  IF b.done
              THEN LET done == ChipTransferDone(b.s)
                   IN  \E nested \in NestedCalls, spiMasterBase \in Observers :
                          LET r == IF nested.call
                                   THEN ChipStartTransfer(done.s, spiMasterBase,
                                            nested.buffers.writeBuffer, nested.buffers.readBuffer,
                                            nested.size)
                                   ELSE Result(done.s, "none")
                          IN  /\ chip' = Recycled(r.s)
                              /\ last' = ChipCompleted(chip, done, nested, r)
                              /\ Delivered(nested, r.ret)
              ELSE /\ chip' = b.s
                   /\ last' = [Stepped("interruptHandler", chip) EXCEPT
                                   !.overrun = (chip.OVR /\ chip.CR2.ERRIE),
                                   !.busy = ChipSr(chip, bsy).BSY]
                   /\ UNCHANGED <<outstanding, requested>>
    /\ UNCHANGED <<variant, control, dma>>

\* the peripheral shifts one frame out and in; the received word is stored in
\* the RX FIFO, or lost with the overrun flag set
ChipFramed(s, overrun) ==
    LET frame == Len(s.written) - s.txCount
        word == Wire(frame, getWordLength(s.CR2))
    IN  [s EXCEPT !.txCount = @ - 1,
                  !.rxFifo = IF overrun THEN @ ELSE Append(@, word),
                  !.OVR = IF overrun THEN TRUE ELSE @]

ChipFrame ==
    /\ variant = "irq"
    /\ chip.txCount > 0
    /\ \E overrun \in BOOLEAN : chip' = ChipFramed(chip, overrun)
    /\ last' = Stepped("frame", chip)
    /\ UNCHANGED <<variant, control, dma, outstanding, requested>>

ChipNext ==
    \/ ChipStartCall
    \/ ChipStopCall
    \/ ChipConfigureCall
    \/ ChipStartTransferCall
    \/ ChipInterruptHandler
    \/ ChipFrame

(***************************************************************************)
(* SpiMasterLowLevelDmaBased: calls from thread context, the interrupts of *)
(* the two DMA channels, the DMA streams and the other driver              *)
(***************************************************************************)

\* depth of the data path between the TX and the RX channel, words
FifoDepth == 1

\* request identifiers used by the other driver (uint8_t)
OtherRequests == {5, 16}

DmaStartCall ==
    /\ variant = "dma"
    /\ LET r == DmaStart(dma)
       IN  /\ dma' = r.s
           /\ last' = Called("start", dma, r)
    /\ UNCHANGED <<variant, control, chip, outstanding, requested>>

DmaStopCall ==
    /\ variant = "dma"
    /\ LET r == DmaStop(dma)
       IN  /\ dma' = r.s
           /\ last' = Called("stop", dma, r)
    /\ UNCHANGED <<variant, control, chip, outstanding, requested>>

DmaConfigureCall ==
    /\ variant = "dma"
    /\ \E a \in ConfigureArguments :
          LET r == DmaConfigure(dma, a.mode, a.clockFrequency, a.wordLength, a.lsbFirst,
                       a.dummyData)
          IN  /\ dma' = r.s
              /\ last' = [CalledConfigure(dma, r, a.wordLength) EXCEPT !.arguments = a]
    /\ UNCHANGED <<variant, control, chip, outstanding, requested>>

DmaStartTransferCall ==
    /\ variant = "dma"
    /\ \E spiMasterBase \in Observers, buffers \in BufferArguments, size \in Sizes :
          LET r == DmaStartTransfer(dma, spiMasterBase, buffers.writeBuffer,
                       buffers.readBuffer, size)
          IN  /\ dma' = r.s
              /\ last' = CalledStartTransfer(dma, r, buffers, size)
              /\ Started(r.ret, size)
    /\ UNCHANGED <<variant, control, chip>>

\* the channels whose interrupt handler has an event to deliver
PendingChannels(s) ==
    {c \in DmaChannels : DmaChannelInterruptHandler(s.channels[c]).event # "none"}

\* interrupt of a DMA channel: DmaChannel::interruptHandler(), the functor's
\* member function and, through eventHandler(), the observer's callback
DmaChannelInterrupt ==
    /\ variant = "dma"
    /\ \E channel \in PendingChannels(dma) :
          LET i == DmaChannelInterruptHandler(dma.channels[channel])
              functor == dma.channels[channel].functor_
              cleared == [dma EXCEPT !.channels[channel] = i.c]
          IN  IF FunctorHandlesEvent(functor, i.event)
              THEN LET done == FunctorEvent(cleared, functor, i.event, i.transactionsLeft)
                   IN  \E nested \in NestedCalls, spiMasterBase \in Observers :
                          LET r == IF nested.call
                                   THEN DmaStartTransfer(done.s, spiMasterBase,
                                            nested.buffers.writeBuffer, nested.buffers.readBuffer,
                                            nested.size)
                                   ELSE Result(done.s, "none")
                          IN  /\ dma' = r.s
                              /\ last' = DmaCompleted(dma, Cardinality(PendingChannels(dma)), functor,
                                              i.event, done, nested, r)
                              /\ Delivered(nested, r.ret)
              ELSE /\ dma' = cleared
                   /\ last' = Stepped("interruptHandler", dma)
                   /\ UNCHANGED <<outstanding, requested>>
    /\ UNCHANGED <<variant, control, chip>>

\* a stream after one transaction: the last one disables the stream and sets
\* the "transfer complete" flag
Transacted(c) ==
    [c EXCEPT !.NDTR = @ - 1,
              !.EN = (c.NDTR > 1),
              !.TCIF = IF c.NDTR = 1 THEN TRUE ELSE @]

\* the TX stream writes one word to DR
DmaTxTransaction ==
    /\ variant = "dma"
    /\ dma.channels[txDmaChannel_].EN
    /\ dma.channels[txDmaChannel_].NDTR > 0
    /\ dma.CR1.SPE /\ dma.CR2.TXDMAEN
    /\ dma.inFlight < FifoDepth
    /\ dma' = [dma EXCEPT !.channels[txDmaChannel_] = Transacted(@), !.inFlight = @ + 1]
    /\ last' = Stepped("transaction", dma)
    /\ UNCHANGED <<variant, control, chip, outstanding, requested>>

\* the RX stream reads one received word from DR
DmaRxTransaction ==
    /\ variant = "dma"
    /\ dma.channels[rxDmaChannel_].EN
    /\ dma.channels[rxDmaChannel_].NDTR > 0
    /\ dma.CR1.SPE /\ dma.CR2.RXDMAEN
    /\ dma.inFlight > 0
    /\ dma' = [dma EXCEPT !.channels[rxDmaChannel_] = Transacted(@), !.inFlight = @ - 1]
    /\ last' = Stepped("transaction", dma)
    /\ UNCHANGED <<variant, control, chip, outstanding, requested>>

\* a bus error on an enabled stream: the stream is disabled with the
\* "transfer error" flag set
DmaTransferError ==
    /\ variant = "dma"
    /\ \E channel \in DmaChannels :
          /\ dma.channels[channel].EN
          /\ dma' = [dma EXCEPT !.channels[channel].EN = FALSE,
                                !.channels[channel].TEIF = TRUE]
    /\ last' = Stepped("error", dma)
    /\ UNCHANGED <<variant, control, chip, outstanding, requested>>

\* another driver reserves a channel through its own handle
OtherReserve ==
    /\ variant = "dma"
    /\ \E channel \in DmaChannels, request \in OtherRequests :
          dma' = UniqueHandleReserve(dma, otherUniqueHandle, channel, request, otherFunctor).s
    /\ last' = Stepped("otherReserve", dma)
    /\ UNCHANGED <<variant, control, chip, outstanding, requested>>

\* the other driver releases its handle
OtherRelease ==
    /\ variant = "dma"
    /\ dma' = UniqueHandleRelease(dma, otherUniqueHandle)
    /\ last' = Stepped("otherRelease", dma)
    /\ UNCHANGED <<variant, control, chip, outstanding, requested>>

DmaNext ==
    \/ DmaStartCall
    \/ DmaStopCall
    \/ DmaConfigureCall
    \/ DmaStartTransferCall
    \/ DmaChannelInterrupt
    \/ DmaTxTransaction
    \/ DmaRxTransaction
    \/ DmaTransferError
    \/ OtherReserve
    \/ OtherRelease

Next == ChipNext \/ DmaNext

Spec == Init /\ [][Next]_vars

\* the interrupt-based driver alone, with its interrupts delivered and the
\* peripheral shifting the frames it is given
ChipFairInit == Init /\ variant = "irq"

ChipFairSpec ==
    /\ ChipFairInit
    /\ [][ChipNext]_vars
    /\ WF_vars(ChipInterruptHandler)
    /\ WF_vars(ChipFrame)

(***************************************************************************)
(* DmaChannel and DmaChannel::UniqueHandle on their own: the handles are   *)
(* used by arbitrary client code, each with its own functor, and the       *)
(* streams of the DMA controller run, fail and raise interrupts            *)
(***************************************************************************)

\* the functor a handle's owner passes to reserve()
HandleFunctor(h) ==
    IF h = rxDmaChannelUniqueHandle_ THEN rxDmaChannelFunctor_
    ELSE IF h = txDmaChannelUniqueHandle_ THEN txDmaChannelFunctor_
    ELSE otherFunctor

\* `request` arguments of reserve() (uint8_t): valid ones and one above 15
ChannelRequests == {15, 16}

\* arguments of configureTransfer(): byte, halfword and word transfers with
\* and without bursts, aligned and misaligned addresses, and transaction
\* counts of 0, 65535 and 65536
TransferArguments ==
    LET bytes == Flags(TRUE, "peripheralToMemory", TRUE, 1, "lowPriority")
        halfwords == Flags(FALSE, "memoryToPeripheral", TRUE, 2, "highPriority")
        words == Flags(FALSE, "memoryToPeripheral", TRUE, 4, "mediumPriority")
        arguments(memoryAddress, peripheralAddress, transactions, flags) ==
            [memoryAddress |-> memoryAddress, peripheralAddress |-> peripheralAddress,
             transactions |-> transactions, flags |-> flags]
    IN  {arguments(64, 12, 2, bytes),
         arguments(80, 12, 65535, [words EXCEPT !.memoryBurstSize = 16]),
         arguments(64, 12, 0, bytes),
         arguments(65, 12, 2, halfwords),
         arguments(72, 12, 2, [words EXCEPT !.memoryBurstSize = 16]),
         arguments(64, 14, 2, words),
         arguments(64, 12, 2, [bytes EXCEPT !.peripheralBurstSize = 16]),
         arguments(64, 12, 65536, bytes)}

\* the handle that references `channel`, if any
Holder(s, channel) ==
    IF \E h \in UniqueHandles : s.channel_[h] = channel
    THEN CHOOSE h \in UniqueHandles : s.channel_[h] = channel
    ELSE Nullptr

\* a call made through handle `h`
\* a transfer is running on the channel the handle holds
HandleBusy(s, h) == s.channel_[h] # Nullptr /\ s.channels[s.channel_[h]].EN

HandleCalled(op, s, r, h) ==
    [Called(op, s, r) EXCEPT !.handle = h, !.held = s.channel_[h]]

\* the handles that compete for the channels: the one of the driver's RX
\* side and one of another owner
Handles == {rxDmaChannelUniqueHandle_, otherUniqueHandle}

HandleReserve ==
    \E h \in Handles, channel \in DmaChannels, request \in ChannelRequests :
        LET r == UniqueHandleReserve(dma, h, channel, request, HandleFunctor(h))
        IN  /\ dma' = r.s
            /\ last' = [HandleCalled("reserve", dma, r, h) EXCEPT
                            !.channel = channel,
                            !.request = request,
                            !.holder = Holder(dma, channel),
                            !.channelUnchanged =
                                /\ r.s.channels[channel].functor_ = dma.channels[channel].functor_
                                /\ r.s.channels[channel].request_ = dma.channels[channel].request_]
            /\ UNCHANGED <<variant, control, chip, outstanding, requested>>

HandleRelease ==
    \E h \in Handles :
        LET r == Result(UniqueHandleRelease(dma, h), "none")
        IN  /\ dma' = r.s
            /\ last' = HandleCalled("release", dma, r, h)
            /\ UNCHANGED <<variant, control, chip, outstanding, requested>>

\* a handle is destroyed; its owner constructs a new one in its place
HandleDestroy ==
    \E h \in Handles :
        LET r == Result(UniqueHandleDestroy(dma, h), "none")
        IN  /\ dma' = r.s
            /\ last' = HandleCalled("destroy", dma, r, h)
            /\ UNCHANGED <<variant, control, chip, outstanding, requested>>

HandleConfigureTransfer ==
    \E h \in Handles, a \in TransferArguments :
        LET r == UniqueHandleConfigureTransfer(dma, h, a.memoryAddress, a.peripheralAddress,
                     a.transactions, a.flags)
        IN  /\ dma' = r.s
            /\ last' = [HandleCalled("configureTransfer", dma, r, h) EXCEPT
                            !.arguments = a,
                            !.busy = HandleBusy(dma, h)]
            /\ UNCHANGED <<variant, control, chip, outstanding, requested>>

HandleStartTransfer ==
    \E h \in Handles :
        LET r == UniqueHandleStartTransfer(dma, h)
        IN  /\ dma' = r.s
            /\ last' = [HandleCalled("startTransfer", dma, r, h) EXCEPT
                            !.busy = HandleBusy(dma, h)]
            /\ UNCHANGED <<variant, control, chip, outstanding, requested>>

HandleStopTransfer ==
    \E h \in Handles :
        LET r == UniqueHandleStopTransfer(dma, h)
        IN  /\ dma' = r.s
            /\ last' = [HandleCalled("stopTransfer", dma, r, h) EXCEPT
                            !.busy = HandleBusy(dma, h)]
            /\ UNCHANGED <<variant, control, chip, outstanding, requested>>

HandleGetTransactionsLeft ==
    \E h \in Handles :
        LET r == UniqueHandleGetTransactionsLeft(dma, h)
        IN  /\ last' = [HandleCalled("getTransactionsLeft", dma, Result(dma, r.ret), h) EXCEPT
                            !.transactionsLeft = r.transactionsLeft]
            /\ UNCHANGED <<variant, control, chip, dma, outstanding, requested>>

\* an enabled stream performs the transactions it has left: it is disabled
\* with the "transfer complete" flag set
ChannelStreamCompletes ==
    /\ \E channel \in DmaChannels :
          /\ dma.channels[channel].EN
          /\ dma' = [dma EXCEPT !.channels[channel].NDTR = 0,
                                !.channels[channel].EN = FALSE,
                                !.channels[channel].TCIF = TRUE]
    /\ last' = Stepped("complete", dma)
    /\ UNCHANGED <<variant, control, chip, outstanding, requested>>

\* interrupt of a DMA channel: DmaChannel::interruptHandler() invokes a member
\* function of the functor the channel is reserved with
ChannelInterrupt ==
    /\ \E channel \in PendingChannels(dma) :
          LET i == DmaChannelInterruptHandler(dma.channels[channel])
          IN  /\ dma' = [dma EXCEPT !.channels[channel] = i.c]
              /\ last' = [Stepped("channelInterrupt", dma) EXCEPT
                              !.channel = channel,
                              !.event = i.event,
                              !.functor = dma.channels[channel].functor_,
                              !.holder = Holder(dma, channel),
                              !.transactionsLeft = i.transactionsLeft,
                              !.flagsBefore = dma.channels[channel]]
    /\ UNCHANGED <<variant, control, chip, outstanding, requested>>

ChannelNext ==
    \/ HandleReserve
    \/ HandleRelease
    \/ HandleDestroy
    \/ HandleConfigureTransfer
    \/ HandleStartTransfer
    \/ HandleStopTransfer
    \/ HandleGetTransactionsLeft
    \/ ChannelStreamCompletes
    \/ DmaTransferError
    \/ ChannelInterrupt

ChannelInit == Init /\ variant = "dma"

ChannelSpec == ChannelInit /\ [][ChannelNext]_vars

(***************************************************************************)
(* The two drivers side by side: every call is made to both with the same   *)
(* arguments, the DMA channels are free, and the hardware completes every   *)
(* transfer without an overrun or a transfer error.                         *)
(***************************************************************************)

NoCompletion == [s |-> Nullptr, spiMasterBase |-> Nullptr, bytesTransfered |-> 0]

\* the interrupt-based driver until its callback: interrupts are served as
\* they are raised, and the peripheral shifts frames without overrun
RECURSIVE ChipRun(_)
ChipRun(s) ==
    IF ChipInterruptPending(s)
    THEN LET b == ChipInterruptBranches(s, ChipSr(s, FALSE))
         IN  IF b.done THEN ChipTransferDone(b.s) ELSE ChipRun(b.s)
    ELSE IF s.txCount > 0
    THEN ChipRun(ChipFramed(s, FALSE))
    ELSE NoCompletion

\* the DMA-based driver until its callback: channel interrupts are served as
\* they are raised, and the streams perform their transactions
RECURSIVE DmaRun(_)
DmaRun(s) ==
    IF PendingChannels(s) # {}
    THEN LET channel == CHOOSE c \in PendingChannels(s) : TRUE
             i == DmaChannelInterruptHandler(s.channels[channel])
             functor == s.channels[channel].functor_
             cleared == [s EXCEPT !.channels[channel] = i.c]
         IN  IF FunctorHandlesEvent(functor, i.event)
             THEN FunctorEvent(cleared, functor, i.event, i.transactionsLeft)
             ELSE DmaRun(cleared)
    ELSE IF /\ s.channels[txDmaChannel_].EN /\ s.channels[txDmaChannel_].NDTR > 0
            /\ s.CR1.SPE /\ s.CR2.TXDMAEN /\ s.inFlight < FifoDepth
    THEN DmaRun([s EXCEPT !.channels[txDmaChannel_] = Transacted(@), !.inFlight = @ + 1])
    ELSE IF /\ s.channels[rxDmaChannel_].EN /\ s.channels[rxDmaChannel_].NDTR > 0
            /\ s.CR1.SPE /\ s.CR2.RXDMAEN /\ s.inFlight > 0
    THEN DmaRun([s EXCEPT !.channels[rxDmaChannel_] = Transacted(@), !.inFlight = @ - 1])
    ELSE NoCompletion

\* the two drivers are in the same lifecycle state and, when started, hold
\* the same word length, dummy data and transfer size: nothing they returned
\* or accepted so far tells them apart
PairAligned ==
    /\ Lifecycle(chip) = Lifecycle(dma)
    /\ Lifecycle(chip) # "STOPPED" =>
           /\ getWordLength(chip.CR2) = dma.wordLength_
           /\ chip.dummyData_ = dma.txDummyData_
           /\ chip.size_ = dma.size_

\* the record of a call made to both drivers; the run ends at the first call
\* or completion after which the drivers are no longer aligned
PairCalled(op, irq, other) ==
    [Called(op, chip, irq) EXCEPT
        !.dma = [pre |-> Lifecycle(dma), ret |-> other.ret, aligned |-> PairAligned]]

PairInit ==
    /\ variant = "pair"
    /\ control = NoControl
    /\ chip = ChipInit
    /\ dma = DmaInit
    /\ last = NoLast
    /\ outstanding = 0
    /\ requested = 0

PairStartCall ==
    /\ PairAligned
    /\ LET irq == ChipStart(chip)
           other == DmaStart(dma)
       IN  /\ chip' = irq.s
           /\ dma' = other.s
           /\ last' = PairCalled("start", irq, other)
    /\ UNCHANGED <<variant, control, outstanding, requested>>

PairStopCall ==
    /\ PairAligned
    /\ LET irq == ChipStop(chip)
           other == DmaStop(dma)
       IN  /\ chip' = irq.s
           /\ dma' = other.s
           /\ last' = PairCalled("stop", irq, other)
    /\ UNCHANGED <<variant, control, outstanding, requested>>

PairConfigureCall ==
    /\ PairAligned
    /\ \E a \in ConfigureArguments, undefinedDivider \in UndefinedDividers :
          LET irq == ChipConfigure(chip, a.mode, a.clockFrequency, a.wordLength, a.lsbFirst,
                         a.dummyData, undefinedDivider)
              other == DmaConfigure(dma, a.mode, a.clockFrequency, a.wordLength, a.lsbFirst,
                           a.dummyData)
          IN  /\ chip' = irq.s
              /\ dma' = other.s
              /\ last' = [PairCalled("configure", irq, other) EXCEPT !.arguments = a]
    /\ UNCHANGED <<variant, control, outstanding, requested>>

PairStartTransferCall ==
    /\ PairAligned
    /\ \E spiMasterBase \in Observers, buffers \in BufferArguments, size \in Sizes :
          LET irq == ChipStartTransfer(chip, spiMasterBase, buffers.writeBuffer,
                         buffers.readBuffer, size)
              other == DmaStartTransfer(dma, spiMasterBase, buffers.writeBuffer,
                           buffers.readBuffer, size)
          IN  /\ chip' = irq.s
              /\ dma' = other.s
              /\ last' = [PairCalled("startTransfer", irq, other) EXCEPT
                              !.size = size,
                              !.aligned = HalfwordAligned(buffers),
                              !.wordLength = getWordLength(chip.CR2)]
    /\ UNCHANGED <<variant, control, outstanding, requested>>

\* the hardware completes the transfers in flight and each driver calls
\* transferCompleteEvent() of its observer
PairComplete ==
    /\ PairAligned
    /\ Lifecycle(chip) = "BUSY" \/ Lifecycle(dma) = "BUSY"
    /\ LET irq == IF Lifecycle(chip) = "BUSY" THEN ChipRun(chip) ELSE NoCompletion
           other == IF Lifecycle(dma) = "BUSY" THEN DmaRun(dma) ELSE NoCompletion
       IN  /\ chip' = IF irq.spiMasterBase # Nullptr THEN Recycled(irq.s) ELSE chip
           /\ dma' = IF other.spiMasterBase # Nullptr THEN other.s ELSE dma
           /\ last' = [Stepped("complete", chip) EXCEPT
                           !.callback = irq.spiMasterBase,
                           !.bytesTransfered = irq.bytesTransfered,
                           !.dma = [pre |-> Lifecycle(dma), aligned |-> PairAligned,
                                    callback |-> other.spiMasterBase,
                                    bytesTransfered |-> other.bytesTransfered]]
    /\ UNCHANGED <<variant, control, outstanding, requested>>

PairNext ==
    \/ PairStartCall
    \/ PairStopCall
    \/ PairConfigureCall
    \/ PairStartTransferCall
    \/ PairComplete

PairSpec == PairInit /\ [][PairNext]_vars

(***************************************************************************)
(* The life of a driver object: it is started, configured, used and         *)
(* stopped, and it may be destroyed in any of its states; another object is *)
(* then constructed for the same peripheral.                                *)
(***************************************************************************)

\* a driver object constructed for a peripheral whose registers hold what the
\* destroyed object left in them
ChipConstructed(s) == [ChipInit EXCEPT !.CR1 = s.CR1, !.CR2 = s.CR2]

DmaConstructed(s) ==
    [DmaInit EXCEPT !.CR1 = s.CR1, !.CR2 = s.CR2, !.channels = s.channels,
                    !.channel_ = s.channel_]

ChipDestructorCall ==
    /\ variant = "irq"
    /\ LET r == Result(ChipDestructor(chip), "none")
       IN  /\ chip' = ChipConstructed(r.s)
           /\ last' = Called("destructor", chip, r)
    /\ outstanding' = 0
    /\ requested' = 0
    /\ UNCHANGED <<variant, control, dma>>

DmaDestructorCall ==
    /\ variant = "dma"
    /\ LET r == Result(DmaDestructor(dma), "none")
       IN  /\ dma' = DmaConstructed(r.s)
           /\ last' = Called("destructor", dma, r)
    /\ outstanding' = 0
    /\ requested' = 0
    /\ UNCHANGED <<variant, control, chip>>

LifetimeNext ==
    \/ ChipStartCall
    \/ ChipStopCall
    \/ ChipConfigureCall
    \/ ChipStartTransferCall
    \/ ChipDestructorCall
    \/ DmaStartCall
    \/ DmaStopCall
    \/ DmaConfigureCall
    \/ DmaStartTransferCall
    \/ DmaDestructorCall

LifetimeSpec == Init /\ [][LifetimeNext]_vars

(***************************************************************************)
(* The clock divider of ChipSpiMasterLowLevel::configure() on its own: the  *)
(* function is applied to peripheral clocks and clock frequencies over the  *)
(* whole width of uint32_t.                                                 *)
(***************************************************************************)

\* values returned by SpiPeripheral::getPeripheralFrequency()
PeripheralFrequencies ==
    {1, 255, 256, 257, PeripheralFrequency, 80000000, 3 * Pow2(28), Modulus - 1}

\* `clockFrequency` arguments of configure(), all above 0
ClockFrequencies ==
    {1, 2, 3, 4, 5, PeripheralFrequency, 312499, 312500, 312501, 40000000, Pow2(28) + 1,
     Modulus - 1}

ChipConfigureFrequency ==
    /\ variant = "irq"
    /\ \E peripheralFrequency \in PeripheralFrequencies, clockFrequency \in ClockFrequencies,
          wordLength \in {8, maxWordLength + 1} :
          LET r == ChipConfigureAt(chip, peripheralFrequency, "cpol0cpha0", clockFrequency,
                       wordLength, FALSE, 0, 0)
          IN  /\ chip' = r.s
              /\ last' = [CalledConfigure(chip, r, wordLength) EXCEPT
                              !.arguments = [peripheralFrequency |-> peripheralFrequency,
                                             clockFrequency |-> clockFrequency,
                                             wordLength |-> wordLength]]
    /\ UNCHANGED <<variant, control, dma, outstanding, requested>>

FrequencyNext ==
    \/ ChipStartCall
    \/ ChipConfigureFrequency

FrequencySpec == ChipFairInit /\ [][FrequencyNext]_vars

(***************************************************************************)
(* The drivers one statement at a time: startTransfer() of either driver   *)
(* and eventHandler() of the DMA-based driver are run in steps, and the    *)
(* interrupts and the hardware act between the steps of the thread.  An    *)
(* interrupt handler runs to its end before the thread goes on.  A failed  *)
(* assertion ends the run.                                                 *)
(***************************************************************************)

\* `size` arguments of startTransfer() when it is run in steps
StepSizes == 0 .. 2

\* arguments of configure(): the valid 8-bit and 16-bit configurations
StepConfigureArguments ==
    {a \in ConfigureArguments :
        a.wordLength \in {8, 16} /\ a.clockFrequency = PeripheralFrequency \div 2}

\* arguments of a startTransfer() call
StepTransferArguments ==
    [spiMasterBase : Observers, buffers : BufferArguments, size : StepSizes]

\* what the observer does inside transferCompleteEvent()
StepNestedCalls == {nested \in NestedCalls : nested.size \in StepSizes}

\* SpiMasterLowLevelDmaBased::startTransfer() that starts the TX channel
\* before the RX channel
DmaStartTransferStepTxFirst(s, pc, a) ==
    LET dataSize == DataSize(s.wordLength_)
        transactions == a.size \div dataSize
        rxFlags == Flags(TRUE, "peripheralToMemory", a.buffers.readBuffer # Nullptr,
                       dataSize, "veryHighPriority")
        txFlags == Flags(FALSE, "memoryToPeripheral", a.buffers.writeBuffer # Nullptr,
                       dataSize, "lowPriority")
        return(state, ret) == [s |-> state, pc |-> "idle", ret |-> ret, assertion |-> TRUE]
        continue(state, next) == [s |-> state, pc |-> next, ret |-> "none", assertion |-> TRUE]
    IN  CASE pc = "idle" ->
                 IF a.size = 0
                 THEN return(s, "EINVAL")
                 ELSE IF DmaIsStarted(s) = FALSE
                 THEN return(s, "EBADF")
                 ELSE IF DmaIsTransferInProgress(s) = TRUE
                 THEN return(s, "EBUSY")
                 ELSE IF a.size % dataSize # 0
                 THEN return(s, "EINVAL")
                 ELSE LET rx == UniqueHandleConfigureTransfer(s, rxDmaChannelUniqueHandle_,
                                    IF a.buffers.readBuffer # Nullptr
                                    THEN a.buffers.readBuffer
                                    ELSE rxDummyDataAddress,
                                    DrAddress, transactions, rxFlags)
                      IN  IF rx.ret # "OK"
                          THEN return(rx.s, rx.ret)
                          ELSE continue(rx.s, "configureTx")
          [] pc = "configureTx" ->
                 LET tx == UniqueHandleConfigureTransfer(s, txDmaChannelUniqueHandle_,
                               IF a.buffers.writeBuffer # Nullptr
                               THEN a.buffers.writeBuffer
                               ELSE txDummyDataAddress,
                               DrAddress, transactions, txFlags)
                 IN  IF tx.ret # "OK"
                     THEN return(tx.s, tx.ret)
                     ELSE continue(tx.s, "arm")
          [] pc = "arm" ->
                 continue([s EXCEPT !.spiMasterBase_ = a.spiMasterBase, !.size_ = a.size],
                     "startRx")
          [] pc = "startRx" ->
                 LET r == UniqueHandleStartTransfer(s, txDmaChannelUniqueHandle_)
                 IN  [s |-> r.s, pc |-> "startTx", ret |-> "none", assertion |-> r.ret = "OK"]
          [] pc = "startTx" ->
                 LET r == UniqueHandleStartTransfer(s, rxDmaChannelUniqueHandle_)
                 IN  [s |-> r.s, pc |-> "idle", ret |-> "OK", assertion |-> r.ret = "OK"]

\* SpiMasterLowLevelDmaBased::startTransfer(), the statement at `pc` of a call
\* with arguments `a`: the checks and the configuration of the RX channel
\* ("idle"), the configuration of the TX channel ("configureTx"), the
\* assignments of spiMasterBase_ and size_ ("arm"), the start of the RX channel
\* ("startRx") and the start of the TX channel ("startTx").  The result is the
\* new state, the next statement, the returned value when the call returns and
\* whether the statement's assertion held
DmaStartTransferStep(s, pc, a) ==
    LET dataSize == DataSize(s.wordLength_)
        transactions == a.size \div dataSize
        rxFlags == Flags(TRUE, "peripheralToMemory", a.buffers.readBuffer # Nullptr,
                       dataSize, "veryHighPriority")
        txFlags == Flags(FALSE, "memoryToPeripheral", a.buffers.writeBuffer # Nullptr,
                       dataSize, "lowPriority")
        return(state, ret) == [s |-> state, pc |-> "idle", ret |-> ret, assertion |-> TRUE]
        continue(state, next) == [s |-> state, pc |-> next, ret |-> "none", assertion |-> TRUE]
    IN  CASE pc = "idle" ->
                 IF a.size = 0
                 THEN return(s, "EINVAL")
                 ELSE IF DmaIsStarted(s) = FALSE
                 THEN return(s, "EBADF")
                 ELSE IF DmaIsTransferInProgress(s) = TRUE
                 THEN return(s, "EBUSY")
                 ELSE IF a.size % dataSize # 0
                 THEN return(s, "EINVAL")
                 ELSE LET rx == UniqueHandleConfigureTransfer(s, rxDmaChannelUniqueHandle_,
                                    IF a.buffers.readBuffer # Nullptr
                                    THEN a.buffers.readBuffer
                                    ELSE rxDummyDataAddress,
                                    DrAddress, transactions, rxFlags)
                      IN  IF rx.ret # "OK"
                          THEN return(rx.s, rx.ret)
                          ELSE continue(rx.s, "configureTx")
          [] pc = "configureTx" ->
                 LET tx == UniqueHandleConfigureTransfer(s, txDmaChannelUniqueHandle_,
                               IF a.buffers.writeBuffer # Nullptr
                               THEN a.buffers.writeBuffer
                               ELSE txDummyDataAddress,
                               DrAddress, transactions, txFlags)
                 IN  IF tx.ret # "OK"
                     THEN return(tx.s, tx.ret)
                     ELSE continue(tx.s, "arm")
          [] pc = "arm" ->
                 continue([s EXCEPT !.spiMasterBase_ = a.spiMasterBase, !.size_ = a.size],
                     "startRx")
          [] pc = "startRx" ->
                 LET r == UniqueHandleStartTransfer(s, rxDmaChannelUniqueHandle_)
                 IN  [s |-> r.s, pc |-> "startTx", ret |-> "none", assertion |-> r.ret = "OK"]
          [] pc = "startTx" ->
                 LET r == UniqueHandleStartTransfer(s, txDmaChannelUniqueHandle_)
                 IN  [s |-> r.s, pc |-> "idle", ret |-> "OK", assertion |-> r.ret = "OK"]

\* eventHandler() that invokes the callback before it clears size_ and
\* spiMasterBase_
DmaEventHandlerStepCallbackFirst(s, isr, transactionsLeft, bytesTransfered) ==
    CASE isr = "stopTx" ->
             [s |-> UniqueHandleStopTransfer(s, txDmaChannelUniqueHandle_).s, isr |-> "stopRx",
              bytesTransfered |-> bytesTransfered, spiMasterBase |-> Nullptr]
      [] isr = "stopRx" ->
             [s |-> UniqueHandleStopTransfer(s, rxDmaChannelUniqueHandle_).s, isr |-> "bytes",
              bytesTransfered |-> bytesTransfered, spiMasterBase |-> Nullptr]
      [] isr = "bytes" ->
             [s |-> s, isr |-> "callback",
              bytesTransfered |-> SizeT(s.size_ - transactionsLeft * DataSize(s.wordLength_)),
              spiMasterBase |-> s.spiMasterBase_]
      [] isr = "clear" ->
             [s |-> [s EXCEPT !.size_ = 0, !.spiMasterBase_ = Nullptr], isr |-> "callback",
              bytesTransfered |-> bytesTransfered, spiMasterBase |-> s.spiMasterBase_]

\* SpiMasterLowLevelDmaBased::eventHandler(transactionsLeft), the statement
\* at `isr`: the TX channel is stopped ("stopTx"), the RX channel is stopped
\* ("stopRx"), bytesTransfered is computed ("bytes"), size_ and spiMasterBase_
\* are cleared with the observer kept in a local ("clear"); the call of
\* transferCompleteEvent() ("callback") follows
DmaEventHandlerStep(s, isr, transactionsLeft, bytesTransfered) ==
    CASE isr = "stopTx" ->
             [s |-> UniqueHandleStopTransfer(s, txDmaChannelUniqueHandle_).s, isr |-> "stopRx",
              bytesTransfered |-> bytesTransfered, spiMasterBase |-> Nullptr]
      [] isr = "stopRx" ->
             [s |-> UniqueHandleStopTransfer(s, rxDmaChannelUniqueHandle_).s, isr |-> "bytes",
              bytesTransfered |-> bytesTransfered, spiMasterBase |-> Nullptr]
      [] isr = "bytes" ->
             [s |-> s, isr |-> "clear",
              bytesTransfered |-> SizeT(s.size_ - transactionsLeft * DataSize(s.wordLength_)),
              spiMasterBase |-> Nullptr]
      [] isr = "clear" ->
             [s |-> [s EXCEPT !.size_ = 0, !.spiMasterBase_ = Nullptr], isr |-> "callback",
              bytesTransfered |-> bytesTransfered, spiMasterBase |-> s.spiMasterBase_]

\* no assertion has failed
StepEnabled == control.failed = FALSE

\* the thread runs: no interrupt handler is being executed
ThreadRuns == StepEnabled /\ control.isr = "none"

\* the thread is outside of startTransfer()
ThreadIdle == ThreadRuns /\ control.pc = "idle"

StepDmaStartCall == ThreadIdle /\ DmaStartCall

StepDmaStopCall == ThreadIdle /\ DmaStopCall

StepDmaConfigureCall ==
    /\ variant = "dma"
    /\ ThreadIdle
    /\ \E a \in StepConfigureArguments :
          LET r == DmaConfigure(dma, a.mode, a.clockFrequency, a.wordLength, a.lsbFirst,
                       a.dummyData)
          IN  /\ dma' = r.s
              /\ last' = [CalledConfigure(dma, r, a.wordLength) EXCEPT !.arguments = a]
    /\ UNCHANGED <<variant, control, chip, outstanding, requested>>

\* a statement of startTransfer() has been executed: the record of the step
StepExecuted(s, r, a) ==
    LET changed == {c \in DmaChannels : r.s.channels[c] # s.channels[c]}
        armed == r.s.spiMasterBase_ # s.spiMasterBase_ \/ r.s.size_ # s.size_
    IN  IF r.pc = "idle"
        THEN [CalledStartTransfer(s, r, a.buffers, a.size) EXCEPT
                  !.arguments = a, !.statement = control.pc,
                  !.changed = changed, !.armed = armed]
        ELSE [Stepped("statement", s) EXCEPT
                  !.size = a.size, !.arguments = a, !.statement = control.pc,
                  !.changed = changed, !.armed = armed]

\* the thread calls startTransfer() and executes its first statements
StepDmaStartTransferCall ==
    /\ variant = "dma"
    /\ ThreadIdle
    /\ \E a \in StepTransferArguments :
          LET r == DmaStartTransferStep(dma, control.pc, a)
          IN  /\ dma' = r.s
              /\ control' = [control EXCEPT !.pc = r.pc,
                                            !.arguments = IF r.pc = "idle" THEN Nullptr ELSE a]
              /\ last' = StepExecuted(dma, r, a)
    /\ UNCHANGED <<variant, chip, outstanding, requested>>

\* the thread executes the next statement of startTransfer()
StepDmaStartTransferStatement ==
    /\ variant = "dma"
    /\ ThreadRuns
    /\ control.pc # "idle"
    /\ LET a == control.arguments
           r == DmaStartTransferStep(dma, control.pc, a)
       IN  /\ dma' = r.s
           /\ control' = [control EXCEPT !.pc = r.pc,
                                         !.arguments = IF r.pc = "idle" THEN Nullptr ELSE a,
                                         !.failed = ~r.assertion]
           /\ last' = StepExecuted(dma, r, a)
    /\ UNCHANGED <<variant, chip, outstanding, requested>>

\* interrupt of a DMA channel: DmaChannel::interruptHandler() and the functor's
\* member function, up to its call of eventHandler()
StepDmaChannelInterrupt ==
    /\ variant = "dma"
    /\ ThreadRuns
    /\ \E channel \in PendingChannels(dma) :
          LET i == DmaChannelInterruptHandler(dma.channels[channel])
              functor == dma.channels[channel].functor_
          IN  /\ dma' = [dma EXCEPT !.channels[channel] = i.c]
              /\ control' = IF FunctorHandlesEvent(functor, i.event)
                            THEN [control EXCEPT !.isr = "stopTx",
                                                 !.transactionsLeft = i.transactionsLeft]
                            ELSE control
              /\ last' = [Stepped("interruptHandler", dma) EXCEPT
                              !.event = i.event, !.functor = functor,
                              !.rxTransactionsLeft = dma.channels[rxDmaChannel_].NDTR]
    /\ UNCHANGED <<variant, chip, outstanding, requested>>

\* the interrupt handler executes the next statement of eventHandler()
StepDmaEventHandler ==
    /\ variant = "dma"
    /\ StepEnabled
    /\ control.isr \in {"stopTx", "stopRx", "bytes", "clear"}
    /\ LET r == DmaEventHandlerStep(dma, control.isr, control.transactionsLeft,
                    control.bytesTransfered)
       IN  /\ dma' = r.s
           /\ control' = [control EXCEPT !.isr = r.isr,
                                         !.bytesTransfered = r.bytesTransfered,
                                         !.spiMasterBase = r.spiMasterBase]
           /\ last' = [Stepped("eventHandler", dma) EXCEPT !.statement = control.isr]
    /\ UNCHANGED <<variant, chip, outstanding, requested>>

\* the last statements of eventHandler(): the assertion that the observer is
\* not null and the call of transferCompleteEvent(), in which the observer may
\* call startTransfer()
StepDmaCallback ==
    /\ variant = "dma"
    /\ StepEnabled
    /\ control.isr = "callback"
    /\ IF control.spiMasterBase = Nullptr
       THEN /\ control' = [control EXCEPT !.failed = TRUE]
            /\ last' = Stepped("assert", dma)
            /\ dma' = dma
       ELSE \E nested \in StepNestedCalls, spiMasterBase \in Observers :
               LET done == [s |-> dma, spiMasterBase |-> control.spiMasterBase,
                            bytesTransfered |-> control.bytesTransfered]
                   r == IF nested.call
                        THEN DmaStartTransfer(dma, spiMasterBase, nested.buffers.writeBuffer,
                                 nested.buffers.readBuffer, nested.size)
                        ELSE Result(dma, "none")
               IN  /\ dma' = r.s
                   /\ control' = [control EXCEPT !.isr = "none", !.transactionsLeft = 0,
                                                 !.bytesTransfered = 0,
                                                 !.spiMasterBase = Nullptr]
                   /\ last' = [Completed(dma, 0, done, nested, r) EXCEPT
                                   !.transactionsLeft = control.transactionsLeft]
    /\ UNCHANGED <<variant, chip, outstanding, requested>>

StepDmaTxTransaction == StepEnabled /\ DmaTxTransaction

StepDmaRxTransaction == StepEnabled /\ DmaRxTransaction

StepDmaTransferError == StepEnabled /\ DmaTransferError

StepDmaNext ==
    \/ StepDmaStartCall
    \/ StepDmaStopCall
    \/ StepDmaConfigureCall
    \/ StepDmaStartTransferCall
    \/ StepDmaStartTransferStatement
    \/ StepDmaChannelInterrupt
    \/ StepDmaEventHandler
    \/ StepDmaCallback
    \/ StepDmaTxTransaction
    \/ StepDmaRxTransaction
    \/ StepDmaTransferError

StepDmaSpec == ChannelInit /\ [][StepDmaNext]_vars

\* ChipSpiMasterLowLevel::startTransfer() that enables the interrupts before
\* it writes the fields of the transfer
ChipStartTransferStepEnablingFirst(s, pc, a) ==
    LET return(state, ret) == [s |-> state, pc |-> "idle", ret |-> ret]
        continue(state, next) == [s |-> state, pc |-> next, ret |-> "none"]
    IN  CASE pc = "idle" ->
                 IF a.size = 0
                 THEN return(s, "EINVAL")
                 ELSE IF ChipIsStarted(s) = FALSE
                 THEN return(s, "EBADF")
                 ELSE IF ChipIsTransferInProgress(s) = TRUE
                 THEN return(s, "EBUSY")
                 ELSE IF a.size % DataSize(getWordLength(s.CR2)) # 0
                 THEN return(s, "EINVAL")
                 ELSE continue([s EXCEPT !.spiMasterBase_ = a.spiMasterBase,
                                         !.CR2 = [s.CR2 EXCEPT !.TXEIE = TRUE, !.RXNEIE = TRUE,
                                                               !.ERRIE = TRUE]],
                          "fields")
          [] pc = "fields" ->
                 continue([s EXCEPT !.readBuffer_ = a.buffers.readBuffer,
                                    !.writeBuffer_ = a.buffers.writeBuffer,
                                    !.size_ = a.size,
                                    !.readPosition_ = 0,
                                    !.writePosition_ = 0],
                     "enable")
          [] pc = "enable" -> return(s, "OK")

\* ChipSpiMasterLowLevel::startTransfer(), the statement at `pc` of a call with
\* arguments `a`: the checks and the assignment of spiMasterBase_ ("idle"),
\* the assignments of the buffers, the size and the positions ("fields"), and
\* the statement that enables the three interrupts ("enable")
ChipStartTransferStep(s, pc, a) ==
    LET return(state, ret) == [s |-> state, pc |-> "idle", ret |-> ret]
        continue(state, next) == [s |-> state, pc |-> next, ret |-> "none"]
    IN  CASE pc = "idle" ->
                 IF a.size = 0
                 THEN return(s, "EINVAL")
                 ELSE IF ChipIsStarted(s) = FALSE
                 THEN return(s, "EBADF")
                 ELSE IF ChipIsTransferInProgress(s) = TRUE
                 THEN return(s, "EBUSY")
                 ELSE IF a.size % DataSize(getWordLength(s.CR2)) # 0
                 THEN return(s, "EINVAL")
                 ELSE continue([s EXCEPT !.spiMasterBase_ = a.spiMasterBase], "fields")
          [] pc = "fields" ->
                 continue([s EXCEPT !.readBuffer_ = a.buffers.readBuffer,
                                    !.writeBuffer_ = a.buffers.writeBuffer,
                                    !.size_ = a.size,
                                    !.readPosition_ = 0,
                                    !.writePosition_ = 0],
                     "enable")
          [] pc = "enable" ->
                 return([s EXCEPT !.CR2 = [s.CR2 EXCEPT !.TXEIE = TRUE, !.RXNEIE = TRUE,
                                                        !.ERRIE = TRUE]],
                     "OK")

StepChipStartCall == ThreadIdle /\ ChipStartCall

StepChipStopCall == ThreadIdle /\ ChipStopCall

StepChipConfigureCall ==
    /\ variant = "irq"
    /\ ThreadIdle
    /\ \E a \in StepConfigureArguments :
          LET r == ChipConfigure(chip, a.mode, a.clockFrequency, a.wordLength, a.lsbFirst,
                       a.dummyData, 0)
          IN  /\ chip' = r.s
              /\ last' = [CalledConfigure(chip, r, a.wordLength) EXCEPT !.arguments = a]
    /\ UNCHANGED <<variant, control, dma, outstanding, requested>>

\* a statement of ChipSpiMasterLowLevel::startTransfer() has been executed:
\* the record of the step
StepChipExecuted(s, r, a) ==
    LET armed == ChipTransferState(r.s) # ChipTransferState(s)
                     \/ r.s.spiMasterBase_ # s.spiMasterBase_
    IN  IF r.pc = "idle"
        THEN [CalledStartTransfer(s, r, a.buffers, a.size) EXCEPT
                  !.arguments = a, !.statement = control.pc, !.armed = armed]
        ELSE [Stepped("statement", s) EXCEPT
                  !.size = a.size, !.arguments = a, !.statement = control.pc,
                  !.armed = armed]

\* the thread calls startTransfer() and executes its first statements
StepChipStartTransferCall ==
    /\ variant = "irq"
    /\ ThreadIdle
    /\ \E a \in StepTransferArguments :
          LET r == ChipStartTransferStep(chip, control.pc, a)
          IN  /\ chip' = r.s
              /\ control' = [control EXCEPT !.pc = r.pc,
                                            !.arguments = IF r.pc = "idle" THEN Nullptr ELSE a]
              /\ last' = StepChipExecuted(chip, r, a)
    /\ UNCHANGED <<variant, dma, outstanding, requested>>

\* the thread executes the next statement of startTransfer()
StepChipStartTransferStatement ==
    /\ variant = "irq"
    /\ ThreadRuns
    /\ control.pc # "idle"
    /\ LET a == control.arguments
           r == ChipStartTransferStep(chip, control.pc, a)
       IN  /\ chip' = r.s
           /\ control' = [control EXCEPT !.pc = r.pc,
                                         !.arguments = IF r.pc = "idle" THEN Nullptr ELSE a]
           /\ last' = StepChipExecuted(chip, r, a)
    /\ UNCHANGED <<variant, dma, outstanding, requested>>

\* ChipSpiMasterLowLevel::interruptHandler() is called, whether the peripheral
\* requests the interrupt or not
StepChipInterruptHandler ==
    /\ variant = "irq"
    /\ StepEnabled
    /\ \E bsy \in BOOLEAN :
          LET b == ChipInterruptBranches(chip, ChipSr(chip, bsy))
              done == ChipTransferDone(b.s)
          IN  IF b.done /\ done.spiMasterBase = Nullptr
              THEN /\ chip' = done.s
                   /\ control' = [control EXCEPT !.failed = TRUE]
                   /\ last' = Stepped("assert", chip)
              ELSE IF b.done
              THEN \E nested \in StepNestedCalls, spiMasterBase \in Observers :
                      LET r == IF nested.call
                               THEN ChipStartTransfer(done.s, spiMasterBase,
                                        nested.buffers.writeBuffer, nested.buffers.readBuffer,
                                        nested.size)
                               ELSE Result(done.s, "none")
                      IN  /\ chip' = Recycled(r.s)
                          /\ control' = control
                          /\ last' = [ChipCompleted(chip, done, nested, r) EXCEPT
                                          !.unchanged = FALSE]
              ELSE /\ chip' = b.s
                   /\ control' = control
                   /\ last' = [Stepped("interruptHandler", chip) EXCEPT
                                   !.unchanged = (b.s = chip)]
    /\ UNCHANGED <<variant, dma, outstanding, requested>>

StepChipFrame == StepEnabled /\ ChipFrame

StepChipNext ==
    \/ StepChipStartCall
    \/ StepChipStopCall
    \/ StepChipConfigureCall
    \/ StepChipStartTransferCall
    \/ StepChipStartTransferStatement
    \/ StepChipInterruptHandler
    \/ StepChipFrame

StepChipSpec == ChipFairInit /\ [][StepChipNext]_vars

(***************************************************************************)
(* Properties                                                              *)
(***************************************************************************)

\* the last step was a call of `op` from thread context
ApiCall(op) == last.op = op

\* the word length the driver is configured with
ConfiguredWordLength ==
    IF variant = "irq" THEN getWordLength(chip.CR2) ELSE dma.wordLength_

\* `size` is a whole number of words of the configured word length
WholeWords(size) == size # 0 /\ size % ((ConfiguredWordLength + 7) \div 8) = 0

\* the arguments of the last (nested) startTransfer() are valid: a whole number
\* of words and, for DMA, buffers aligned to the size of a word
ValidTransferArguments ==
    /\ WholeWords(last.size)
    /\ (variant = "dma" /\ ConfiguredWordLength > 8) => last.aligned

\* C1: at most one transferCompleteEvent is delivered for each startTransfer
\* that returned 0, and none when no successful startTransfer is outstanding;
\* every callback is delivered to the observer of the transfer
C1_AtMostOneCallback ==
    /\ outstanding \in {0, 1}
    /\ last.callback => (last.outstandingBefore = 1 /\ last.callee \in Observers)

\* C1 witness: a callback of the DMA-based driver delivered while both of its
\* channels had an event pending
C1_Witness == variant = "dma" /\ last.callback /\ last.pending = 2

\* C2: every startTransfer of the interrupt-based driver that returned 0 is
\* eventually followed by its transferCompleteEvent
C2_TransferCompletes ==
    (variant = "irq" /\ Lifecycle(chip) = "BUSY" /\ ~last.callback) ~> last.callback

\* C3: when transferCompleteEvent is invoked the observer pointer is null and
\* the driver IDLE, and a startTransfer with valid arguments issued from inside
\* the callback returns 0 and leaves its transfer outstanding
C3_ObserverClearedBeforeCallback ==
    last.callback =>
        /\ last.observerInCallback = Nullptr
        /\ last.lifecycleInCallback = "IDLE"
        /\ (last.nested /\ ValidTransferArguments) =>
               /\ last.ret = "OK"
               /\ Lifecycle(Driver) = "BUSY"
               /\ outstanding = 1
               /\ requested = last.size

\* C3 witness: a startTransfer issued from inside the callback returned 0
C3_Witness == last.callback /\ last.nested /\ last.ret = "OK" /\ Lifecycle(Driver) = "BUSY"

\* C4: every step keeps the lifecycle state or is STOPPED -> IDLE by a
\* successful start(), IDLE -> BUSY by a successful startTransfer(),
\* BUSY -> IDLE by the completion path or IDLE -> STOPPED by a successful stop()
C4_LifecycleTransitions ==
    LET pre == last.pre
        post == Lifecycle(Driver)
    IN  \/ pre = post
        \/ pre = "STOPPED" /\ post = "IDLE" /\ ApiCall("start") /\ last.ret = "OK"
        \/ pre = "IDLE" /\ post = "BUSY" /\ ApiCall("startTransfer") /\ last.ret = "OK"
        \/ pre = "BUSY" /\ post = "IDLE" /\ last.op = "interruptHandler" /\ last.callback
        \/ pre = "IDLE" /\ post = "STOPPED" /\ ApiCall("stop") /\ last.ret = "OK"

\* C4 witness: the completion path took the driver from BUSY to IDLE
C4_Witness == last.pre = "BUSY" /\ Lifecycle(Driver) = "IDLE" /\ last.callback

\* C5: bytesTransferred passed to transferCompleteEvent is never greater than
\* the size given to the startTransfer it completes
C5_BytesTransferredAtMostSize ==
    last.callback => last.bytesTransfered <= last.completedSize

\* C5 witness: a transfer ended early, with some but not all bytes transferred
C5_Witness ==
    last.callback /\ 0 < last.bytesTransfered /\ last.bytesTransfered < last.completedSize

\* startTransfer() with size 0 and, in the interrupt-based driver, configure()
\* with a word length outside [minWordLength, maxWordLength] are rejected
\* before the state of the driver is looked at
RejectedFirst ==
    \/ ApiCall("startTransfer") /\ last.size = 0
    \/ /\ ApiCall("configure") /\ variant = "irq"
       /\ (last.wordLength < minWordLength \/ last.wordLength > maxWordLength)

\* C6 as claimed: while a transfer is in progress startTransfer(), configure()
\* and stop() return EBUSY for every argument combination
C6_Claimed_BusyForAllArguments ==
    (last.pre = "BUSY" /\ (ApiCall("startTransfer") \/ ApiCall("configure") \/ ApiCall("stop")))
        => last.ret = "EBUSY"

\* C6: while a transfer is in progress startTransfer(), configure() and stop()
\* return EBUSY, or EINVAL for the arguments that are rejected first; the call
\* changes nothing, so the driver stays started with the transfer in flight
C6_BusyWhileTransferInProgress ==
    (last.pre = "BUSY" /\ (ApiCall("startTransfer") \/ ApiCall("configure") \/ ApiCall("stop")))
        => /\ last.ret = (IF RejectedFirst THEN "EINVAL" ELSE "EBUSY")
           /\ last.unchanged
           /\ Lifecycle(Driver) = "BUSY"
           /\ outstanding = 1

\* C6 witness: stop() refused while a transfer is in progress
C6_Witness == last.pre = "BUSY" /\ ApiCall("stop") /\ last.ret = "EBUSY"

\* C7 as claimed: wrong-state calls return EBADF whatever their arguments
C7_Claimed_BadfForAllArguments ==
    /\ (ApiCall("start") /\ last.pre # "STOPPED") => last.ret = "EBADF"
    /\ (last.pre = "STOPPED" /\ (ApiCall("stop") \/ ApiCall("configure")
                                    \/ ApiCall("startTransfer")))
           => last.ret = "EBADF"

\* C7: start() on a started driver and stop(), configure() and startTransfer()
\* on a driver that is not started return EBADF (configure with frequency 0),
\* except for the arguments that are rejected first with EINVAL
C7_BadfInWrongState ==
    /\ (ApiCall("start") /\ last.pre # "STOPPED") => last.ret = "EBADF"
    /\ (last.pre = "STOPPED" /\ (ApiCall("stop") \/ ApiCall("configure")
                                    \/ ApiCall("startTransfer")))
           => /\ last.ret = (IF RejectedFirst THEN "EINVAL" ELSE "EBADF")
              /\ last.frequency = 0

\* C7 witness: configure() on a driver that is not started returned EBADF
C7_Witness == last.pre = "STOPPED" /\ ApiCall("configure") /\ last.ret = "EBADF"

\* C8: on a started, idle driver startTransfer returns EINVAL when size is 0 or
\* not a multiple of ceil(wordLength / 8); the driver stays IDLE and no
\* transfer becomes outstanding
C8_InvalidSize ==
    /\ (ApiCall("startTransfer") /\ last.pre = "IDLE" /\ ~WholeWords(last.size))
           => /\ last.ret = "EINVAL"
              /\ last.unchanged
              /\ Lifecycle(Driver) = "IDLE"
              /\ outstanding = 0
    /\ (last.callback /\ last.nested /\ ~WholeWords(last.size))
           => /\ last.ret = "EINVAL"
              /\ last.unchanged
              /\ Lifecycle(Driver) = "IDLE"
              /\ outstanding = 0

\* C8 witness: an odd size rejected by a driver configured for 16-bit words
C8_Witness ==
    /\ ApiCall("startTransfer") /\ last.pre = "IDLE" /\ last.ret = "EINVAL"
    /\ last.size = 1 /\ ConfiguredWordLength = 16

\* C9: a call of start, stop, configure or startTransfer that returns EBADF or
\* EBUSY leaves untouched the fields of the driver, the SPI registers and the
\* DMA channels with their reservations
C9_WrongStateLeavesStateUntouched ==
    ((ApiCall("start") \/ ApiCall("stop") \/ ApiCall("configure") \/ ApiCall("startTransfer"))
        /\ last.ret \in {"EBADF", "EBUSY"}) => last.unchanged

\* C9 witness: start() of the DMA-based driver failed with EBUSY because a
\* channel is reserved by another driver
C9_Witness == variant = "dma" /\ ApiCall("start") /\ last.ret = "EBUSY"

\* C10: a configure or startTransfer call that fails with EINVAL or ENOTSUP has
\* modified no SPI register and no DMA channel register
C10_ParameterErrorWritesNoRegister ==
    (last.ret \in {"EINVAL", "ENOTSUP"}
        /\ (ApiCall("configure") \/ ApiCall("startTransfer") \/ last.nested))
        => last.registersUnchanged

\* the byte at offset i of a read buffer filled with the frames of the wire in
\* the order received: one byte per word up to 8 bits, low byte then high byte
\* above
ReceivedByte(i, wordLength) ==
    IF wordLength <= 8
    THEN Wire(i, wordLength) % 256
    ELSE IF i % 2 = 0
    THEN Wire(i \div 2, wordLength) % 256
    ELSE Wire(i \div 2, wordLength) \div 256

\* C11: a transfer of the interrupt-based driver that completes without
\* overrun reports size bytes; a non-null read buffer then holds in [0, size)
\* the received words in order, and nothing is stored past them or, with a
\* null read buffer, anywhere
C11_ReadBufferHoldsReceivedWords ==
    (variant = "irq" /\ last.callback /\ ~last.overrun) =>
        /\ last.bytesTransfered = last.completedSize
        /\ last.memory =
               [i \in MemoryOffsets |->
                   IF last.readBuffer # Nullptr /\ i < last.completedSize
                   THEN ReceivedByte(i, ConfiguredWordLength)
                   ELSE FreshMemory[i]]

\* C11 witness: two 16-bit words received into a read buffer
C11_Witness ==
    /\ variant = "irq" /\ last.callback /\ ~last.overrun
    /\ last.readBuffer # Nullptr /\ ConfiguredWordLength = 16 /\ last.completedSize = 4
    /\ last.memory[0] # last.memory[2] /\ last.memory[1] # last.memory[0]

\* word k of a transfer, as the write buffer or the dummy data give it
TransmittedWord(k, writeBuffer, dummyData, wordLength) ==
    IF writeBuffer = Nullptr
    THEN dummyData % Pow2(IF wordLength <= 8 THEN 8 ELSE 16)
    ELSE IF wordLength <= 8
    THEN SourceByte(writeBuffer + k)
    ELSE SourceByte(writeBuffer + 2 * k) + 256 * SourceByte(writeBuffer + 2 * k + 1)

\* `written` is the sequence of the first words of a transfer
TransmittedInOrder(written, writeBuffer, dummyData, wordLength) ==
    \A k \in 1 .. Len(written) :
        written[k] = TransmittedWord(k - 1, writeBuffer, dummyData, wordLength)

\* C12: the words written to DR by the interrupt-based driver are in order the
\* words of the write buffer, or the dummy data; a word is written only after
\* the word received for the one before has been read; a transfer that
\* completes normally has written size / ceil(wordLength / 8) words
C12_WordsWrittenInOrder ==
    LET wordLength == getWordLength(chip.CR2)
    IN  /\ (variant = "irq" /\ Lifecycle(chip) = "BUSY") =>
               /\ TransmittedInOrder(chip.written, chip.writeBuffer_, chip.dummyData_,
                      wordLength)
               /\ Len(chip.written) * DataSize(wordLength) = chip.writePosition_
               /\ chip.writePosition_ <= chip.readPosition_ + DataSize(wordLength)
        /\ (variant = "irq" /\ last.callback) =>
               TransmittedInOrder(last.written, last.writeBuffer, chip.dummyData_, wordLength)
        /\ (variant = "irq" /\ last.callback /\ ~last.overrun) =>
               Len(last.written) * DataSize(wordLength) = last.completedSize

\* C12 witness: a transfer of several words from a write buffer has completed
C12_Witness ==
    /\ variant = "irq" /\ last.callback /\ ~last.overrun
    /\ last.writeBuffer # Nullptr /\ Len(last.written) >= 3

\* C13: an overrun handled while the peripheral is not busy ends the transfer
\* with transferCompleteEvent(readPosition): the bytes read so far, which are
\* the bytes stored; the lost word is not sent again, the error leaves no trace
\* in the driver, which is IDLE in the callback and as after any completion
C13_OverrunReportedThroughCallback ==
    /\ (variant = "irq" /\ last.op = "interruptHandler" /\ last.overrun /\ ~last.busy)
           => last.callback
    /\ (variant = "irq" /\ last.callback /\ last.overrun) =>
           /\ last.bytesTransfered = last.readPosition
           /\ last.bytesTransfered < last.completedSize
           /\ last.memory =
                  [i \in MemoryOffsets |->
                      IF last.readBuffer # Nullptr /\ i < last.bytesTransfered
                      THEN ReceivedByte(i, ConfiguredWordLength)
                      ELSE FreshMemory[i]]
           /\ Len(last.written) * DataSize(ConfiguredWordLength)
                  = last.bytesTransfered + DataSize(ConfiguredWordLength)
           /\ last.lifecycleInCallback = "IDLE"
           /\ ~chip.OVR /\ chip.txCount = 0 /\ chip.rxFifo = <<>>
           /\ chip.readPosition_ = 0 /\ chip.writePosition_ = 0
           /\ (last.nested /\ ValidTransferArguments) => last.ret = "OK"
           /\ ~(last.nested /\ last.ret = "OK") =>
                  /\ Lifecycle(chip) = "IDLE"
                  /\ ~chip.CR2.TXEIE /\ ~chip.CR2.RXNEIE /\ ~chip.CR2.ERRIE

\* C13 witness: an overrun ended a transfer after some of its bytes were read
C13_Witness ==
    /\ variant = "irq" /\ last.callback /\ last.overrun
    /\ 0 < last.bytesTransfered /\ last.bytesTransfered < last.completedSize

\* C14: for every completion of a DMA-based transfer (RX transfer complete, RX
\* or TX transfer error) bytesTransferred is the size of the transfer minus
\* the transactions the RX channel has left at the event times the word size
C14_BytesFromRxTransactionsLeft ==
    (variant = "dma" /\ last.callback) =>
        last.bytesTransfered
            = last.completedSize - last.rxTransactionsLeft * DataSize(dma.wordLength_)

\* C15: when start() of the DMA-based driver fails because a channel cannot
\* be reserved, it returns the error code of the reservation that failed (RX
\* is tried first), the driver stays STOPPED, no register is written and the
\* driver holds no reservation: neither handle references a channel and
\* neither channel has a functor of the driver
C15_StartFailureHoldsNoReservation ==
    LET rx == DmaChannelReserve(dma.channels[rxDmaChannel_], rxDmaRequest_,
                  rxDmaChannelFunctor_)
        tx == DmaChannelReserve(dma.channels[txDmaChannel_], txDmaRequest_,
                  txDmaChannelFunctor_)
    IN  (variant = "dma" /\ ApiCall("start") /\ last.pre = "STOPPED" /\ last.ret # "OK") =>
            /\ last.ret = (IF rx.ret # "OK" THEN rx.ret ELSE tx.ret)
            /\ last.ret # "OK"
            /\ Lifecycle(dma) = "STOPPED"
            /\ last.registersUnchanged
            /\ dma.CR1 = ZeroCr1 /\ dma.CR2 = ZeroCr2
            /\ dma.channel_[rxDmaChannelUniqueHandle_] = Nullptr
            /\ dma.channel_[txDmaChannelUniqueHandle_] = Nullptr
            /\ \A c \in DmaChannels :
                   dma.channels[c].functor_ \notin {rxDmaChannelFunctor_, txDmaChannelFunctor_}

\* C15 witness: start() failed on the TX channel after it had reserved the RX
\* channel, which is free again
C15_Witness ==
    /\ variant = "dma" /\ ApiCall("start") /\ last.pre = "STOPPED" /\ last.ret = "EBUSY"
    /\ dma.channels[rxDmaChannel_].functor_ = Nullptr
    /\ dma.channels[txDmaChannel_].functor_ = otherFunctor

\* C16: at any instant at most one UniqueHandle references a given DmaChannel,
\* whatever sequence of reserve, release and destroy operations the handles
\* went through; the channel a handle references is reserved with that
\* handle's functor.
C16_AtMostOneHandlePerChannel ==
    /\ \A h1 \in UniqueHandles, h2 \in UniqueHandles :
           (h1 # h2 /\ dma.channel_[h1] # Nullptr) => dma.channel_[h1] # dma.channel_[h2]
    /\ \A h \in UniqueHandles :
           dma.channel_[h] # Nullptr =>
               dma.channels[dma.channel_[h]].functor_ = HandleFunctor(h)

\* C16 witness: a handle tried to reserve the channel another handle holds and
\* was refused; the other handle still holds it
C16_Witness ==
    /\ last.op = "reserve" /\ last.ret = "EBUSY"
    /\ last.holder \notin {Nullptr, last.handle}
    /\ dma.channel_[last.holder] = last.channel
    /\ dma.channel_[last.handle] = Nullptr

\* C17 as claimed: whenever reserve() fails, the observer and the request id
\* of the channel are unchanged and the calling handle references no channel.
C17_Claimed_FailedReserveLeavesChannel ==
    (last.op = "reserve" /\ last.ret # "OK") =>
        /\ last.channelUnchanged
        /\ dma.channel_[last.handle] = Nullptr

\* C17: reserve() fails with EBUSY when another handle holds the channel, with
\* EINVAL when the request is above 15 (with one of the two when both), and
\* succeeds otherwise.  After a failure the calling handle references no
\* channel; the observer and the request id of the channel are unchanged
\* unless the calling handle itself held that channel, and then they are
\* cleared, because reserve() starts by releasing what the handle holds.
C17_FailedReserve ==
    LET byAnother == last.holder \notin {Nullptr, last.handle}
        invalid == last.request > 15
    IN  last.op = "reserve" =>
            /\ (byAnother /\ ~invalid) => last.ret = "EBUSY"
            /\ (invalid /\ ~byAnother) => last.ret = "EINVAL"
            /\ (byAnother /\ invalid) => last.ret \in {"EBUSY", "EINVAL"}
            /\ (~byAnother /\ ~invalid) => last.ret = "OK"
            /\ last.ret # "OK" =>
                   /\ dma.channel_[last.handle] = Nullptr
                   /\ last.held # last.channel => last.channelUnchanged
                   /\ last.held = last.channel =>
                          /\ dma.channels[last.channel].functor_ = Nullptr
                          /\ dma.channels[last.channel].request_ = 0
                          /\ ~last.channelUnchanged

\* C17 witness: a handle that held a channel reserved it again with a request
\* above 15; the call failed and the channel is no longer reserved
C17_Witness ==
    /\ last.op = "reserve" /\ last.ret = "EINVAL"
    /\ last.held = last.channel
    /\ dma.channels[last.channel].functor_ = Nullptr

\* C18: release() on a handle that holds a channel clears the observer and the
\* request id of the channel, empties the handle and leaves the channel
\* reservable by every handle; on an empty handle it changes nothing; a second
\* release() changes nothing; destroying a handle does what release() does.
C18_ReleaseClearsReservation ==
    last.op \in {"release", "destroy"} =>
        /\ dma.channel_[last.handle] = Nullptr
        /\ last.held # Nullptr =>
               /\ dma.channels[last.held].functor_ = Nullptr
               /\ dma.channels[last.held].request_ = 0
               /\ \A h \in UniqueHandles :
                      UniqueHandleReserve(dma, h, last.held, 0, HandleFunctor(h)).ret = "OK"
        /\ last.held = Nullptr => last.unchanged
        /\ UniqueHandleRelease(dma, last.handle) = dma
        /\ UniqueHandleDestroy(dma, last.handle) = dma

\* C18 witness: a handle that held a channel was destroyed
C18_Witness ==
    /\ last.op = "destroy" /\ last.held # Nullptr
    /\ dma.channels[last.held].functor_ = Nullptr

\* C19: an interrupt of a DMA channel invokes a functor only while a handle
\* holds the channel, and then the functor of that handle: after the handle
\* was released or destroyed nothing is invoked until the channel is reserved
\* again.
C19_NoCallbackAfterRelease ==
    last.op = "channelInterrupt" =>
        /\ last.holder = Nullptr => last.functor = Nullptr
        /\ last.holder # Nullptr => last.functor = HandleFunctor(last.holder)

\* C19 witness: an interrupt with a pending event was served on a channel no
\* handle holds any more, and no functor was invoked
C19_Witness ==
    /\ last.op = "channelInterrupt" /\ last.event # "none"
    /\ last.holder = Nullptr /\ last.functor = Nullptr

\* C20: configureTransfer() on a reserved channel with no transfer active
\* returns EINVAL when transactions = 0, when memoryAddress is not a multiple
\* of memoryDataSize x memoryBurstSize (at most 16) or when peripheralAddress
\* is not a multiple of peripheralDataSize x peripheralBurstSize, ENOTSUP when
\* the arguments are otherwise valid and transactions > 65535, and 0 otherwise,
\* storing the parameters and leaving the channel disabled; on an error nothing
\* changes.
C20_ConfigureTransfer ==
    LET a == last.arguments
        memoryBurst == a.flags.memoryDataSize * a.flags.memoryBurstSize
        memoryAlignment == IF memoryBurst > 16 THEN 16 ELSE memoryBurst
        peripheralAlignment == a.flags.peripheralDataSize * a.flags.peripheralBurstSize
        invalid == \/ a.transactions = 0
                   \/ a.memoryAddress % memoryAlignment # 0
                   \/ a.peripheralAddress % peripheralAlignment # 0
    IN  (last.op = "configureTransfer" /\ last.held # Nullptr /\ ~last.busy) =>
            /\ last.ret = (IF invalid THEN "EINVAL"
                           ELSE IF a.transactions > 65535 THEN "ENOTSUP"
                           ELSE "OK")
            /\ last.ret # "OK" => last.unchanged
            /\ last.ret = "OK" =>
                   /\ dma.channels[last.held].M0AR = a.memoryAddress
                   /\ dma.channels[last.held].PAR = a.peripheralAddress
                   /\ dma.channels[last.held].NDTR = a.transactions
                   /\ dma.channels[last.held].CR = a.flags
                   /\ ~dma.channels[last.held].EN

\* C20 witness: a transfer of 65535 words in bursts of 16, to an address that
\* is a multiple of 16 but not of 64, was accepted
C20_Witness ==
    /\ last.op = "configureTransfer" /\ last.ret = "OK"
    /\ last.arguments.transactions = 65535
    /\ last.arguments.flags.memoryDataSize * last.arguments.flags.memoryBurstSize > 16
    /\ last.arguments.memoryAddress % 64 # 0
    /\ ~dma.channels[last.held].EN

\* the argument sets of configureTransfer() that a stopped channel accepts
AcceptedTransferArguments ==
    {a \in TransferArguments :
        DmaChannelConfigureTransfer(DmaChannelInit, a.memoryAddress, a.peripheralAddress,
            a.transactions, a.flags).ret = "OK"}

\* C21: while a transfer is running on a DMA channel, configureTransfer() and
\* startTransfer() issued through its handle return EBUSY, whatever the
\* arguments, and change nothing: the channel stays enabled with the
\* parameters it was programmed with.
C21_BusyWhileTransferRunning ==
    (last.op \in {"configureTransfer", "startTransfer"} /\ last.held # Nullptr /\ last.busy) =>
        /\ last.ret = "EBUSY"
        /\ last.unchanged
        /\ dma.channels[last.held].EN

\* C21 witness: configureTransfer() with arguments a stopped channel accepts
\* was refused on a running channel programmed with other parameters
C21_Witness ==
    /\ last.op = "configureTransfer" /\ last.held # Nullptr /\ last.busy
    /\ last.ret = "EBUSY"
    /\ last.arguments \in AcceptedTransferArguments
    /\ dma.channels[last.held].EN
    /\ dma.channels[last.held].M0AR # last.arguments.memoryAddress

\* C22: stopTransfer() on a handle that holds a channel returns 0 and leaves
\* the channel disabled with no pending flag, whether the channel was running,
\* had completed or was never started; a further stopTransfer() changes
\* nothing, and configureTransfer() and startTransfer() are accepted again.
C22_StopTransferIdempotent ==
    (last.op = "stopTransfer" /\ last.held # Nullptr) =>
        /\ last.ret = "OK"
        /\ ~dma.channels[last.held].EN
        /\ ~dma.channels[last.held].TCIF
        /\ ~dma.channels[last.held].TEIF
        /\ dma.channel_[last.handle] = last.held
        /\ UniqueHandleStopTransfer(dma, last.handle) = Result(dma, "OK")
        /\ UniqueHandleStartTransfer(dma, last.handle).ret = "OK"
        /\ \A a \in AcceptedTransferArguments :
               UniqueHandleConfigureTransfer(dma, last.handle, a.memoryAddress,
                   a.peripheralAddress, a.transactions, a.flags).ret = "OK"

\* C22 witness: stopTransfer() stopped a running transfer
C22_Witness ==
    /\ last.op = "stopTransfer" /\ last.held # Nullptr /\ last.busy
    /\ last.ret = "OK" /\ ~last.unchanged
    /\ ~dma.channels[last.held].EN

\* C27: on a UniqueHandle that holds no channel, configureTransfer(),
\* startTransfer() and stopTransfer() return EBADF, getTransactionsLeft()
\* returns (EBADF, 0), and nothing changes: no DMA channel is touched.
C27_EmptyHandleReturnsBadf ==
    (/\ last.op \in {"configureTransfer", "startTransfer", "stopTransfer", "getTransactionsLeft"}
     /\ last.held = Nullptr) =>
        /\ last.ret = "EBADF"
        /\ last.unchanged
        /\ last.op = "getTransactionsLeft" => last.transactionsLeft = 0

\* C27 witness: stopTransfer() through an empty handle was refused while a
\* transfer was running on a channel another handle holds
C27_Witness ==
    /\ last.op = "stopTransfer" /\ last.held = Nullptr /\ last.ret = "EBADF"
    /\ \E c \in DmaChannels : dma.channels[c].EN /\ Holder(dma, c) # Nullptr

\* C29 as claimed: every physical completion leads to an observer method:
\* a channel on which the hardware has signalled a completion or an error that
\* the handler has not served yet has its interrupt pending.
C29_Claimed_EveryCompletionDispatched ==
    \A c \in DmaChannels :
        (dma.channels[c].TCIF \/ dma.channels[c].TEIF) => c \in PendingChannels(dma)

\* C29: a run of the interrupt handler of a DMA channel dispatches exactly one
\* event and clears its flag, so that the event is not dispatched again:
\* transferErrorEvent with the remaining-transactions counter of the channel
\* when an error was signalled, transferCompleteEvent when a completion was
\* signalled without an error on a channel configured with the
\* transfer-complete interrupt enabled.  A completion on a channel configured
\* with that interrupt disabled raises no interrupt.
C29_OneEventPerCompletion ==
    /\ last.op = "channelInterrupt" =>
          LET before == last.flagsBefore
              after == dma.channels[last.channel]
          IN  /\ last.event \in {"transferCompleteEvent", "transferErrorEvent"}
              /\ before.TEIF =>
                     /\ last.event = "transferErrorEvent"
                     /\ last.transactionsLeft = before.NDTR
                     /\ ~after.TEIF /\ after.TCIF = before.TCIF
              /\ ~before.TEIF =>
                     /\ last.event = "transferCompleteEvent"
                     /\ before.TCIF /\ before.CR.transferCompleteInterruptEnable
                     /\ ~after.TCIF /\ ~after.TEIF
              /\ after = [before EXCEPT !.TCIF = after.TCIF, !.TEIF = after.TEIF]
    /\ \A c \in DmaChannels :
          (/\ dma.channels[c].TCIF /\ ~dma.channels[c].TEIF
           /\ ~dma.channels[c].CR.transferCompleteInterruptEnable) => c \notin PendingChannels(dma)

\* C29 witness: the handler dispatched a transfer error that left transactions
\* undone to the functor of the holder, and the channel has nothing pending
C29_Witness ==
    /\ last.op = "channelInterrupt" /\ last.event = "transferErrorEvent"
    /\ last.transactionsLeft > 0 /\ last.functor # Nullptr
    /\ last.channel \notin PendingChannels(dma)

\* C30: in every reachable state the observer pointer of a DmaChannel is
\* non-null if and only if some handle holds the channel.
C30_ObserverIffReserved ==
    \A c \in DmaChannels :
        dma.channels[c].functor_ # Nullptr <=> (\E h \in UniqueHandles : dma.channel_[h] = c)

\* C30 witness: a handle released one channel while the other channel stays
\* reserved through another handle
C30_Witness ==
    /\ last.op \in {"release", "destroy"} /\ last.held # Nullptr
    /\ dma.channels[last.held].functor_ = Nullptr
    /\ \E c \in DmaChannels : dma.channels[c].functor_ # Nullptr

\* ceil(a / b) for b >= 1
Ceil(a, b) == (a + b - 1) \div b

\* C23 at the peripheral clock of the two drivers run side by side
\* (PeripheralFrequency): configure() on a started, idle SPI driver returns
\* EINVAL and changes nothing (no register, not the dummy data, not the word
\* length) whenever wordLength is outside [4, 16] or the clock frequency needs
\* a divider ceil(peripheralClock / clockFrequency) above 256.
C23_InvalidConfigureChangesNothing ==
    LET a == last.arguments
        invalid == \/ a.wordLength < 4
                   \/ a.wordLength > 16
                   \/ /\ a.clockFrequency >= 1
                      /\ Ceil(PeripheralFrequency, a.clockFrequency) > 256
    IN  (ApiCall("configure") /\ last.pre = "IDLE" /\ invalid) =>
            /\ last.ret = "EINVAL"
            /\ last.frequency = 0
            /\ last.unchanged
            /\ last.registersUnchanged

\* C23 witness: a driver configured for 16-bit words and dummy data 54549
\* refused a clock frequency that needs a divider of 334 and kept both
C23_Witness ==
    /\ variant = "irq" /\ ApiCall("configure") /\ last.pre = "IDLE"
    /\ last.arguments.clockFrequency = 3 /\ last.ret = "EINVAL"
    /\ getWordLength(chip.CR2) = 16 /\ chip.dummyData_ = 54549

\* C23: configure() on a started, idle SPI driver returns EINVAL and changes
\* nothing whenever wordLength is outside [4, 16] or the clock frequency needs
\* a divider ceil(peripheralClock / clockFrequency) above 256, whatever the
\* peripheral clock.
C23_InvalidConfigureAtEveryClock ==
    LET a == last.arguments
        invalid == \/ a.wordLength < 4
                   \/ a.wordLength > 16
                   \/ Ceil(a.peripheralFrequency, a.clockFrequency) > 256
    IN  (ApiCall("configure") /\ last.pre = "IDLE" /\ invalid) =>
            /\ last.ret = "EINVAL"
            /\ last.frequency = 0
            /\ last.unchanged

\* the smallest br in [0, 7] with 2^(br+1) >= divider, for divider <= 256
SmallestBr(divider) ==
    CHOOSE br \in 0 .. 7 :
        /\ Pow2(br + 1) >= divider
        /\ \A smaller \in 0 .. 7 : Pow2(smaller + 1) >= divider => br <= smaller

\* C24: for every peripheralClock and clockFrequency with
\* ceil(peripheralClock / clockFrequency) <= 256, configure() on a started,
\* idle driver succeeds and returns peripheralClock / 2^(br+1), where br is the
\* smallest value in [0, 7] with 2^(br+1) >= ceil(peripheralClock /
\* clockFrequency); the returned frequency is not above clockFrequency, and br
\* is what the BR field holds.
C24_ReturnedFrequency ==
    LET peripheralFrequency == last.arguments.peripheralFrequency
        clockFrequency == last.arguments.clockFrequency
        br == SmallestBr(Ceil(peripheralFrequency, clockFrequency))
    IN  (/\ ApiCall("configure") /\ last.pre = "IDLE"
         /\ last.arguments.wordLength \in minWordLength .. maxWordLength
         /\ Ceil(peripheralFrequency, clockFrequency) <= 256) =>
            /\ last.ret = "OK"
            /\ last.frequency = peripheralFrequency \div Pow2(br + 1)
            /\ last.frequency <= clockFrequency
            /\ chip.CR1.BR = br

\* C23 and C24 where the sum peripheralClock + clockFrequency - 1 fits the
\* width of uint32_t: the case in which the code computes the divider the
\* claims name
C24_ReturnedFrequencyWithoutWrap ==
    (/\ ApiCall("configure")
     /\ last.arguments.peripheralFrequency + last.arguments.clockFrequency - 1 >= Modulus)
        \/ (C23_InvalidConfigureAtEveryClock /\ C24_ReturnedFrequency)

\* C25: after a successful start() CR1 holds SSM | SSI | SPE | BR (all bits) |
\* MSTR and CR2 holds FRXTH | 8-bit data size, with TXDMAEN | RXDMAEN in the
\* DMA-based driver, whatever was configured before an earlier stop(); after a
\* successful stop() both hold 0, and so they do whenever the driver is
\* STOPPED.
C25_StartAndStopRegisters ==
    LET cr1 == [SSM |-> TRUE, SSI |-> TRUE, SPE |-> TRUE, BR |-> 7, MSTR |-> TRUE,
                LSBFIRST |-> FALSE, CPOL |-> FALSE, CPHA |-> FALSE]
        cr2 == [FRXTH |-> TRUE, DS |-> 7, TXEIE |-> FALSE, RXNEIE |-> FALSE, ERRIE |-> FALSE,
                TXDMAEN |-> variant = "dma", RXDMAEN |-> variant = "dma"]
        cr1Reset == [SSM |-> FALSE, SSI |-> FALSE, SPE |-> FALSE, BR |-> 0, MSTR |-> FALSE,
                     LSBFIRST |-> FALSE, CPOL |-> FALSE, CPHA |-> FALSE]
        cr2Reset == [FRXTH |-> FALSE, DS |-> 0, TXEIE |-> FALSE, RXNEIE |-> FALSE,
                     ERRIE |-> FALSE, TXDMAEN |-> FALSE, RXDMAEN |-> FALSE]
    IN  /\ (ApiCall("start") /\ last.ret = "OK") =>
               /\ Driver.CR1 = cr1 /\ Driver.CR2 = cr2
               /\ ConfiguredWordLength = 8
               /\ Lifecycle(Driver) = "IDLE"
        /\ (ApiCall("stop") /\ last.ret = "OK") =>
               /\ Driver.CR1 = cr1Reset /\ Driver.CR2 = cr2Reset
               /\ Lifecycle(Driver) = "STOPPED"
        /\ Lifecycle(Driver) = "STOPPED" => (Driver.CR1 = cr1Reset /\ Driver.CR2 = cr2Reset)

\* C25 witness: start() succeeded on a driver that had been configured for
\* 16-bit words with dummy data 54549 before it was stopped
C25_Witness ==
    /\ variant = "irq" /\ ApiCall("start") /\ last.ret = "OK"
    /\ chip.dummyData_ = 54549
    /\ getWordLength(chip.CR2) = 8 /\ chip.CR1.BR = 7 /\ ~chip.CR1.LSBFIRST

\* C26: destroying an SPI driver that is still started leaves 0 in CR1 and in
\* CR2, as stop() does; destroying a stopped driver writes no register.
C26_DestructorResetsPeripheral ==
    ApiCall("destructor") =>
        /\ last.pre # "STOPPED" => (Driver.CR1 = ZeroCr1 /\ Driver.CR2 = ZeroCr2)
        /\ last.pre = "STOPPED" => last.registersUnchanged

\* C26 for the DMA-based driver alone
C26_DmaDestructorResetsPeripheral == variant = "dma" => C26_DestructorResetsPeripheral

\* C28: run side by side on the same calls with the same arguments, the two
\* drivers return the same status code at every call, and deliver the same
\* bytesTransferred at every completion, as long as nothing they returned
\* before has told them apart.
C28_SameContract ==
    /\ (last.op \in {"start", "stop", "configure", "startTransfer"} /\ last.dma.aligned)
           => last.ret = last.dma.ret
    /\ (last.op = "complete" /\ last.dma.aligned) =>
           /\ last.callback = last.dma.callback
           /\ last.bytesTransfered = last.dma.bytesTransfered

\* C28 apart from the calls on which the drivers are known to differ:
\* configure() with a word length outside [4, 16] on a driver that is not
\* started and idle, configure() with clockFrequency = 0, and startTransfer()
\* of 16-bit words with a buffer at an odd address
C28_SameContractElsewhere ==
    \/ /\ last.op = "configure"
       /\ \/ last.arguments.clockFrequency = 0
          \/ /\ last.pre # "IDLE"
             /\ last.arguments.wordLength \notin minWordLength .. maxWordLength
    \/ last.op = "startTransfer" /\ last.wordLength > 8 /\ ~last.aligned
    \/ C28_SameContract

\* C31: a successful startTransfer of the interrupt-based driver has written
\* the first word of the transfer (the first word of the write buffer, or the
\* dummy data when the write buffer is null) to DR when it returns, and has
\* enabled the RXNE and the error interrupt.
C31_StartTransferPushesFirstWord ==
    (variant = "irq" /\ ApiCall("startTransfer") /\ last.ret = "OK") =>
        /\ Len(chip.written) >= 1
        /\ chip.written[1] = TransmittedWord(0, chip.writeBuffer_, chip.dummyData_,
                                 getWordLength(chip.CR2))
        /\ chip.CR2.RXNEIE /\ chip.CR2.ERRIE

\* C31 as the code has it: a successful startTransfer has written nothing to
\* DR when it returns; it has enabled the TXE, RXNE and error interrupts, and
\* the first word is written by the interrupt handler
C31_FirstWordLeftToInterruptHandler ==
    (variant = "irq" /\ ApiCall("startTransfer") /\ last.ret = "OK") =>
        /\ chip.written = <<>> /\ chip.txCount = 0
        /\ chip.CR2.TXEIE /\ chip.CR2.RXNEIE /\ chip.CR2.ERRIE
        /\ ChipInterruptPending(chip)

\* the transfer state of the interrupt-based driver with everything cleared
ChipTransferCleared ==
    [TXEIE |-> FALSE, RXNEIE |-> FALSE, ERRIE |-> FALSE,
     writePosition |-> 0, readPosition |-> 0, size |-> 0,
     writeBuffer |-> Nullptr, readBuffer |-> Nullptr]

\* C32: when the interrupt-based driver invokes transferCompleteEvent the TXE,
\* RXNE and error interrupts are disabled and the write position, the read
\* position, the size and both buffer pointers are cleared; the callback is
\* the last action of the interrupt handler: what the driver holds when the
\* handler returns is what the callback left, cleared fields when the observer
\* did nothing, the fields of the new transfer when it started one.
C32_ClearedBeforeCallback ==
    (variant = "irq" /\ last.callback) =>
        /\ last.inCallback = ChipTransferCleared
        /\ (~last.nested \/ last.ret # "OK") => ChipTransferState(chip) = ChipTransferCleared
        /\ (last.nested /\ last.ret = "OK") =>
               /\ chip.size_ = last.size
               /\ chip.CR2.TXEIE /\ chip.CR2.RXNEIE /\ chip.CR2.ERRIE
               /\ chip.spiMasterBase_ # Nullptr

\* C32 witness: a transfer of several bytes into a read buffer has completed
\* and the observer has started the next transfer inside the callback
C32_Witness ==
    /\ variant = "irq" /\ last.callback /\ last.nested /\ last.ret = "OK"
    /\ last.readBuffer # Nullptr /\ last.bytesTransfered >= 2 /\ ~last.overrun

\* C36: throughout every transfer of the interrupt-based driver
\* readPosition <= writePosition <= size, writePosition - readPosition <=
\* ceil(wordLength / 8), and both positions are multiples of
\* ceil(wordLength / 8); hence the word the handler reads from the write buffer
\* and the word it stores in the read buffer lie below index `size`.
C36_PositionsWithinSize ==
    LET dataSize == DataSize(getWordLength(chip.CR2))
    IN  (variant = "irq" /\ Lifecycle(chip) = "BUSY") =>
            /\ chip.readPosition_ <= chip.writePosition_
            /\ chip.writePosition_ <= chip.size_
            /\ chip.writePosition_ - chip.readPosition_ <= dataSize
            /\ chip.readPosition_ % dataSize = 0
            /\ chip.writePosition_ % dataSize = 0
            /\ (Len(chip.rxFifo) > 0 /\ chip.CR2.RXNEIE) =>
                   chip.readPosition_ + dataSize <= chip.size_
            /\ (ChipTxe(chip) /\ chip.CR2.TXEIE) =>
                   chip.writePosition_ + dataSize <= chip.size_

\* C36 witness: the last 16-bit word of a transfer of four bytes between two
\* buffers has been written and the word before it has been read
C36_Witness ==
    /\ variant = "irq" /\ Lifecycle(chip) = "BUSY"
    /\ getWordLength(chip.CR2) = 16 /\ chip.size_ = 4
    /\ chip.writeBuffer_ # Nullptr /\ chip.readBuffer_ # Nullptr
    /\ chip.writePosition_ = 4 /\ chip.readPosition_ = 2

\* C39: after any sequence of start, stop, configure, startTransfer calls and
\* completions the DMA-based driver is started if and only if both its RX and
\* its TX handle hold a reservation (of the RX and of the TX channel, for the
\* driver's functors); after a successful stop() each of the two channels can
\* be reserved through another handle.
C39_StartedIffBothReserved ==
    variant = "dma" =>
        /\ dma.started_ <=>
               /\ dma.channel_[rxDmaChannelUniqueHandle_] # Nullptr
               /\ dma.channel_[txDmaChannelUniqueHandle_] # Nullptr
        /\ dma.started_ =>
               /\ dma.channel_[rxDmaChannelUniqueHandle_] = rxDmaChannel_
               /\ dma.channel_[txDmaChannelUniqueHandle_] = txDmaChannel_
               /\ dma.channels[rxDmaChannel_].functor_ = rxDmaChannelFunctor_
               /\ dma.channels[txDmaChannel_].functor_ = txDmaChannelFunctor_
        /\ ~dma.started_ =>
               /\ dma.channel_[rxDmaChannelUniqueHandle_] = Nullptr
               /\ dma.channel_[txDmaChannelUniqueHandle_] = Nullptr
        /\ (ApiCall("stop") /\ last.ret = "OK") =>
               \A channel \in DmaChannels, request \in {rxDmaRequest_, txDmaRequest_} :
                   LET r == UniqueHandleReserve(dma, otherUniqueHandle, channel, request,
                                otherFunctor)
                   IN  /\ r.ret = "OK"
                       /\ r.s.channel_[otherUniqueHandle] = channel

\* C39 witness: the driver has been stopped, the other driver has reserved the
\* TX channel, and a start() of the driver has failed on it
C39_Witness ==
    /\ variant = "dma" /\ ApiCall("start") /\ last.ret = "EBUSY"
    /\ dma.channels[txDmaChannel_].functor_ = otherFunctor
    /\ dma.channels[rxDmaChannel_].functor_ = Nullptr
    /\ dma.channels[txDmaChannel_].NDTR > 0

\* C40: UniqueHandle::reserve first releases what the handle holds: reserving
\* through a handle the channel it already holds succeeds (with a valid
\* request) instead of failing with EBUSY, and after a reserve() that failed
\* the handle holds nothing and the channel it held before is free; after a
\* reserve() of another channel that succeeded the former channel is free too.
C40_ReserveReleasesFirst ==
    last.op = "reserve" =>
        /\ (last.held = last.channel /\ last.held # Nullptr /\ last.request <= 15) =>
               /\ last.ret = "OK"
               /\ dma.channel_[last.handle] = last.channel
               /\ dma.channels[last.channel].functor_ = HandleFunctor(last.handle)
               /\ dma.channels[last.channel].request_ = last.request
        /\ last.ret # "OK" => dma.channel_[last.handle] = Nullptr
        /\ (last.held # Nullptr /\ (last.ret # "OK" \/ last.held # last.channel)) =>
               /\ dma.channels[last.held].functor_ = Nullptr
               /\ dma.channels[last.held].request_ = 0
               /\ Holder(dma, last.held) = Nullptr

\* C40 witness: a handle reserved the channel it already held and the call
\* returned 0
C40_Witness ==
    /\ last.op = "reserve" /\ last.ret = "OK"
    /\ last.held = last.channel /\ last.held # Nullptr
    /\ last.handle = otherUniqueHandle

\* C37: whenever the DMA-based driver is not BUSY neither of its DMA channels
\* is running, also when an RX channel event interrupts startTransfer between
\* the start of the RX channel and the start of the TX channel; the two
\* channel startTransfer calls inside the driver's startTransfer return 0, so
\* that no assertion fails.
C37_ChannelsIdleUnlessBusy ==
    variant = "dma" =>
        /\ Lifecycle(dma) # "BUSY" => \A channel \in DmaChannels : ~dma.channels[channel].EN
        /\ control.failed = FALSE

\* C37 when startTransfer() is not interrupted: the channels of a driver that
\* is not BUSY are not running
C37_ChannelsIdleUnlessBusyUninterrupted ==
    variant = "dma" =>
        (Lifecycle(dma) # "BUSY" => \A channel \in DmaChannels : ~dma.channels[channel].EN)

\* the statement of eventHandler() that follows `statement`
NextStatement(statement) ==
    CASE statement = "stopTx" -> "stopRx"
      [] statement = "stopRx" -> "bytes"
      [] statement = "bytes" -> "clear"
      [] statement = "clear" -> "callback"

\* C33: in every completion of a DMA-based transfer the steps are taken in
\* this order: the TX channel is stopped, the RX channel is stopped, the byte
\* count is computed (from size_ as it still is), size_ and the observer
\* pointer are cleared, transferCompleteEvent is invoked.
C33_CompletionOrder ==
    LET rx == dma.channels[rxDmaChannel_]
        tx == dma.channels[txDmaChannel_]
    IN  variant = "dma" =>
            /\ last.op = "eventHandler" => control.isr = NextStatement(last.statement)
            /\ (last.op = "interruptHandler" /\ control.isr # "none") => control.isr = "stopTx"
            /\ control.isr = "stopRx" => ~tx.EN
            /\ control.isr \in {"bytes", "clear", "callback"} => (~tx.EN /\ ~rx.EN)
            /\ control.isr = "clear" =>
                   control.bytesTransfered =
                       SizeT(dma.size_ - control.transactionsLeft * DataSize(dma.wordLength_))
            /\ (control.isr = "clear" /\ last.pre = "BUSY") =>
                   (dma.size_ > 0 /\ dma.spiMasterBase_ # Nullptr)
            /\ control.isr = "callback" => (dma.size_ = 0 /\ dma.spiMasterBase_ = Nullptr)
            /\ (control.isr = "callback" /\ last.pre = "BUSY") =>
                   control.spiMasterBase \in Observers
            /\ (last.callback /\ last.op = "interruptHandler" /\ last.statement = "none") =>
                   /\ last.lifecycleInCallback = "IDLE"
                   /\ last.observerInCallback = Nullptr

\* C33 witness: the handler of a transfer error with one of two transactions
\* left has stopped both channels, computed one byte and cleared the fields,
\* and is about to invoke the callback
C33_Witness ==
    /\ variant = "dma" /\ control.isr = "callback"
    /\ control.transactionsLeft = 1 /\ control.bytesTransfered = 1
    /\ control.spiMasterBase \in Observers

\* C34: a DMA-based startTransfer configures the RX channel first and then the
\* TX channel; it returns the first configuration error without configuring
\* or starting anything further and without recording the observer; on
\* success it has started the RX channel before the TX channel, each
\* programmed with size / ceil(wordLength / 8) transactions.
C34_StartTransferOrder ==
    LET rx == dma.channels[rxDmaChannel_]
        tx == dma.channels[txDmaChannel_]
        a == last.arguments
        transactions == a.size \div DataSize(dma.wordLength_)
    IN  (variant = "dma" /\ last.statement # "none" /\ control.failed = FALSE
         /\ last.op \in {"statement", "startTransfer"}) =>
            /\ (last.op = "statement" /\ last.statement = "idle") =>
                   /\ control.pc = "configureTx"
                   /\ last.changed \subseteq {rxDmaChannel_} /\ ~last.armed
                   /\ rx.NDTR = transactions /\ rx.PAR = DrAddress
                   /\ rx.M0AR = (IF a.buffers.readBuffer # Nullptr
                                 THEN a.buffers.readBuffer ELSE rxDummyDataAddress)
                   /\ ~rx.EN
            /\ (last.op = "statement" /\ last.statement = "configureTx") =>
                   /\ control.pc = "arm"
                   /\ last.changed \subseteq {txDmaChannel_} /\ ~last.armed
                   /\ tx.NDTR = transactions /\ tx.PAR = DrAddress
                   /\ tx.M0AR = (IF a.buffers.writeBuffer # Nullptr
                                 THEN a.buffers.writeBuffer ELSE txDummyDataAddress)
                   /\ ~tx.EN
            /\ (last.op = "startTransfer" /\ last.ret # "OK") =>
                   /\ last.statement \in {"idle", "configureTx"}
                   /\ last.changed = {} /\ ~last.armed /\ last.unchanged
                   /\ last.statement = "configureTx" =>
                          (dma.spiMasterBase_ = Nullptr /\ ~rx.EN)
            /\ last.statement = "arm" =>
                   /\ control.pc = "startRx"
                   /\ last.armed /\ last.changed = {}
                   /\ dma.spiMasterBase_ = a.spiMasterBase /\ dma.size_ = a.size
            /\ last.statement = "startRx" =>
                   /\ control.pc = "startTx"
                   /\ last.changed = {rxDmaChannel_} /\ ~last.armed
                   /\ rx.EN
            /\ last.statement = "startTx" =>
                   /\ last.op = "startTransfer" /\ last.ret = "OK"
                   /\ last.changed = {txDmaChannel_} /\ ~last.armed
                   /\ tx.EN

\* C34 witness: a startTransfer of one 16-bit word from a write buffer at an
\* odd address has configured the RX channel and returned the error of the TX
\* channel's configuration
C34_Witness ==
    /\ variant = "dma" /\ last.op = "startTransfer" /\ last.ret = "EINVAL"
    /\ last.statement = "configureTx"
    /\ dma.channels[rxDmaChannel_].NDTR = 1 /\ dma.wordLength_ = 16
    /\ dma.channels[rxDmaChannel_].M0AR = last.arguments.buffers.readBuffer

\* C35, thread context: startTransfer() writes the fields of the driver when
\* no transfer is in progress
C35_ThreadWritesWhileIdle ==
    (variant = "dma" /\ last.op = "statement" /\ last.armed) => last.pre = "IDLE"

\* C35, initialisation: an interrupt handler runs only when the executing
\* startTransfer(), if any, has written every field of the transfer
C35_HandlerSeesWholeTransfer ==
    (variant = "dma" /\ control.isr = "stopTx" /\ control.pc # "idle") =>
        /\ control.pc = "startTx"
        /\ dma.spiMasterBase_ = control.arguments.spiMasterBase
        /\ dma.size_ = control.arguments.size

\* C35, interrupt context: eventHandler(), which writes size_ and
\* spiMasterBase_, runs only while the driver is BUSY
C35_HandlerWritesWhileBusy ==
    (variant = "dma" /\ control.isr \in {"stopTx", "stopRx", "bytes", "clear"}) =>
        Lifecycle(dma) = "BUSY"

\* C35: for every interleaving of interrupt handlers with thread-context calls,
\* thread context writes the fields of the driver only while the driver is
\* IDLE and interrupt context writes them only while it is BUSY; startTransfer
\* has written every field of the transfer before its last action, so that an
\* interrupt handler never runs against a partially initialised transfer.
C35_WritesByContext ==
    /\ C35_ThreadWritesWhileIdle
    /\ C35_HandlerSeesWholeTransfer
    /\ C35_HandlerWritesWhileBusy

\* C38: in the interrupt-based driver the TXEIE, RXNEIE and ERRIE bits of CR2
\* are set only while a transfer is in progress; a call of interruptHandler
\* while the driver is IDLE or STOPPED takes no branch: it accesses no data
\* register, changes no state and delivers no callback, and the assertion on
\* the observer is never reached with a null observer.
C38_InterruptsEnabledOnlyWhileBusy ==
    variant = "irq" =>
        /\ Lifecycle(chip) # "BUSY" =>
               (~chip.CR2.TXEIE /\ ~chip.CR2.RXNEIE /\ ~chip.CR2.ERRIE)
        /\ (last.op = "interruptHandler" /\ last.pre # "BUSY") =>
               (last.unchanged /\ ~last.callback)
        /\ control.failed = FALSE

\* C38 witness: interruptHandler has been called on a driver that is IDLE
\* and configured for 16-bit words, while the TXE flag is set
C38_Witness ==
    /\ variant = "irq" /\ last.op = "interruptHandler" /\ last.pre = "IDLE"
    /\ ChipTxe(chip) /\ getWordLength(chip.CR2) = 16

\* C35 for the interrupt-based driver: startTransfer writes the fields while
\* no interrupt is enabled, and the handler changes the state of the driver
\* only after startTransfer has enabled the interrupts and returned
C35_ChipWritesByContext ==
    variant = "irq" =>
        /\ control.pc \in {"fields", "enable"} =>
               (~chip.CR2.TXEIE /\ ~chip.CR2.RXNEIE /\ ~chip.CR2.ERRIE)
        /\ (last.op = "statement" /\ last.statement = "idle") => last.pre = "IDLE"
        /\ (last.op = "interruptHandler" /\ ~last.unchanged) =>
               (last.pre = "BUSY" /\ control.pc = "idle")
====
